---- MODULE Spec2Model ----
(***************************************************************************)
(* TuxType typing test engine (src/src/core/test_engine.py) with its live  *)
(* statistics accumulator (src/src/core/stats_calculator.py).              *)
(*                                                                         *)
(* One engine instance is modelled.  The operations are the inbound        *)
(* interface of the engine: process_key(key), check_time_limit() and       *)
(* reset(); the wall clock (time.time()) is the variable now, advanced by  *)
(* Tick.  Every call is atomic and reads one clock value.                  *)
(*                                                                         *)
(* Words are sequences of one-character strings; key tokens are strings.   *)
(* Indices are 0-based as in the source; sequences add one when indexed.   *)
(* Speeds (wpm) are kept in hundredths, the two decimals round(x, 2) keeps.*)
(***************************************************************************)
EXTENDS Integers, Sequences, FiniteSets, TLC

VARIABLES
    mode, mode_value, difficulty,      \* TestEngine settings
    word_states,                       \* List[WordState]
    current_word_index, current_char_index,
    status, start_time, end_time, time_limit,
    stats,                             \* LiveStats
    now,                               \* time.time()
    lastCall,                          \* the last call and what it returned
    on_complete_calls,                 \* on_complete invocations since reset
    key_sent,                          \* a process_key call since reset
    created_at,                        \* clock value at construction/reset
    resets,                            \* number of reset() calls
    gen,                               \* WordGenerator: cache and last call
    calc,                              \* a LiveStats object and last call
    screen,                            \* where TestScreen.on_key stands
    db                                 \* DatabaseManager: the tables

engineVars == <<word_states, current_word_index, current_char_index,
                status, start_time, end_time, time_limit, stats>>
configVars == <<mode, mode_value, difficulty>>
vars == <<mode, mode_value, difficulty, word_states, current_word_index,
          current_char_index, status, start_time, end_time, time_limit,
          stats, now, lastCall, on_complete_calls, key_sent, created_at,
          resets, gen, calc, screen, db>>
\* what the engine's own methods never touch
unitVars == <<gen, calc, screen, db>>
\* the engine and its caller
sessionVars == <<mode, mode_value, difficulty, word_states,
                 current_word_index, current_char_index, status, start_time,
                 end_time, time_limit, stats, now, lastCall,
                 on_complete_calls, key_sent, created_at, resets, screen>>

(***************************************************************************)
(* Bounds of the exploration.                                              *)
(***************************************************************************)
MaxModeValue == 2       \* mode_value ranges over 0..MaxModeValue
MaxKeystrokes == 2      \* character keys accepted per session
MaxTime == 2            \* last clock value
MaxResets == 1          \* reset() calls explored
MaxQuoteWords == 1      \* longest quote, in words
\* Source constants scaled down so that their cases are reached:
DefaultWordCount == 1   \* generate_words(count=50) of the fallback branch
TimeWordBuffer == 3     \* TIME_MODE_WORD_BUFFER (500)
TimeWordBatch == 1      \* TIME_MODE_WORD_BATCH (100)
TimeLookahead == 1      \* the literal 10 of the replenishment test
SampleEvery == 3        \* the literal 20 of the periodic WPM sample

CHARS_PER_WORD == 5

None == -1              \* Python None for optional numbers
Truthy(x) == x # None /\ x # 0

Modes == {"words", "time", "quote", "custom"}
Difficulties == {"normal", "expert", "master"}
NOT_STARTED == "not_started"
IN_PROGRESS == "in_progress"
COMPLETED == "completed"
FAILED == "failed"
Terminal == {COMPLETED, FAILED}

\* Key tokens handed to process_key.
CharKeys == {"a", "b"}
Keys == CharKeys \cup {"space", "backspace", "escape", "tab", "enter", ""}

\* The resolved word list the supply draws from.
WordPool == {<<"a">>, <<"a", "b">>}

RECURSIVE WordLists(_)
WordLists(n) ==
    IF n <= 0 THEN {<< >>}
    ELSE {Append(l, w) : l \in WordLists(n - 1), w \in WordPool}

\* The words of the quote collection's quotes (text.split()).
QuoteWordLists == UNION {WordLists(n) : n \in 0..MaxQuoteWords}

\* mode_value: a word count or a number of seconds; unused in Quote mode.
ModeValues(m) == IF m = "quote" THEN {MaxModeValue} ELSE 0..MaxModeValue

Max(a, b) == IF a >= b THEN a ELSE b

(***************************************************************************)
(* StatsCalculator / LiveStats                                             *)
(***************************************************************************)
\* round(n / d, 0) of a non-negative rational, ties to even.
RoundDiv(n, d) ==
    LET q == n \div d
        r == n % d
    IN  IF 2 * r < d THEN q
        ELSE IF 2 * r > d THEN q + 1
        ELSE IF q % 2 = 0 THEN q ELSE q + 1

\* calculate_wpm, in hundredths: round((c / 5) / (t / 60), 2).
calculate_wpm(correct_chars, elapsed_seconds) ==
    IF elapsed_seconds <= 0 THEN 0
    ELSE RoundDiv(100 * 60 * correct_chars, CHARS_PER_WORD * elapsed_seconds)

LiveStatsReset ==
    [correct_chars |-> 0, incorrect_chars |-> 0, extra_chars |-> 0,
     missed_chars |-> 0, total_keystrokes |-> 0,
     word_speeds |-> << >>, wpm_history |-> << >>]

add_correct_char_uncounted(s) == [s EXCEPT !.total_keystrokes = @ + 1]

add_correct_char(s) ==
    [s EXCEPT !.correct_chars = @ + 1, !.total_keystrokes = @ + 1]
add_incorrect_char(s) ==
    [s EXCEPT !.incorrect_chars = @ + 1, !.total_keystrokes = @ + 1]
add_extra_char_as_incorrect(s) ==
    [s EXCEPT !.incorrect_chars = @ + 1, !.total_keystrokes = @ + 1]

add_extra_char(s) ==
    [s EXCEPT !.extra_chars = @ + 1, !.total_keystrokes = @ + 1]
complete_word(s, word_wpm) ==
    [s EXCEPT !.word_speeds = Append(@, word_wpm)]
add_missed_chars_dropped(s, count) == s
add_missed_chars(s, count) ==
    [s EXCEPT !.missed_chars = @ + count]
record_wpm(s, time, wpm) ==
    [s EXCEPT !.wpm_history = Append(@, <<time, wpm>>)]
total_chars_with_extra(s) ==
    s.correct_chars + s.incorrect_chars + s.extra_chars

total_chars(s) == s.correct_chars + s.incorrect_chars
get_wpm(s, elapsed_seconds) == calculate_wpm(s.correct_chars, elapsed_seconds)

\* calculate_raw_wpm, in hundredths
calculate_raw_wpm(chars, elapsed_seconds) ==
    IF elapsed_seconds <= 0 THEN 0
    ELSE RoundDiv(100 * 60 * chars, CHARS_PER_WORD * elapsed_seconds)

\* calculate_accuracy, in hundredths: round((c / n) * 100, 2)
calculate_accuracy(correct_chars, chars) ==
    IF chars <= 0 THEN 10000
    ELSE RoundDiv(100 * 100 * correct_chars, chars)

RECURSIVE GCD(_, _)
GCD(a, b) == IF b = 0 THEN a ELSE GCD(b, a % b)

RECURSIVE SeqGCD(_)
SeqGCD(xs) == IF Len(xs) = 0 THEN 0 ELSE GCD(Head(xs), SeqGCD(Tail(xs)))

\* StatsCalculator.get_char_stats(expected, typed)
get_char_stats(expected, typed) ==
    LET exp_len == Len(expected)
        typ_len == Len(typed)
        compare_len == IF exp_len < typ_len THEN exp_len ELSE typ_len
    IN  [correct |-> Cardinality({i \in 1..compare_len :
                                     typed[i] = expected[i]}),
         incorrect |-> Cardinality({i \in 1..compare_len :
                                       typed[i] # expected[i]}),
         extra |-> IF typ_len > exp_len THEN typ_len - exp_len ELSE 0,
         missed |-> IF typ_len < exp_len THEN exp_len - typ_len ELSE 0]

RECURSIVE SeqSum(_)
SeqSum(xs) == IF Len(xs) = 0 THEN 0 ELSE Head(xs) + SeqSum(Tail(xs))

RECURSIVE SeqSumSq(_)
SeqSumSq(xs) ==
    IF Len(xs) = 0 THEN 0 ELSE Head(xs) * Head(xs) + SeqSumSq(Tail(xs))

\* the largest k in lo..hi with k * k <= n  (lo * lo <= n)
RECURSIVE ISqrtIn(_, _, _)
ISqrtIn(n, lo, hi) ==
    IF lo >= hi THEN lo
    ELSE LET mid == (lo + hi + 1) \div 2
         IN  IF mid * mid <= n THEN ISqrtIn(n, mid, hi)
             ELSE ISqrtIn(n, lo, mid - 1)

\* floor(m * m * a / b), computed without leaving 32 bits
FloorScaled(m, a, b) ==
    ((m * a) \div b) * m + (m * ((m * a) % b)) \div b
\* m * m * a / b is an integer
ExactScaled(m, a, b) == (m * ((m * a) % b)) % b = 0

NonNegativeSpeeds(word_speeds) == SelectSeq(word_speeds, LAMBDA x : x >= 0)

\* speeds = [s for s in word_speeds if s > 0]
PositiveSpeeds(word_speeds) == SelectSeq(word_speeds, LAMBDA x : x > 0)

\* calculate_consistency, in hundredths:
\* round(max(0, min(100, 100 - stdev / mean * 100)), 2).  With n speeds of
\* sum T and sum of squares Q, (stdev / mean)^2 = n (n Q - T^2) / ((n-1) T^2);
\* the ratio does not depend on the unit, so the speeds are first divided
\* by their common divisor.
calculate_consistency(word_speeds) ==
    IF Len(word_speeds) < 2 THEN 10000
    ELSE
    LET raw == PositiveSpeeds(word_speeds)
    IN  IF Len(raw) < 2 THEN 10000
        ELSE IF SeqSum(raw) <= 0 THEN 10000
        ELSE
        LET g == SeqGCD(raw)
            xs == [i \in 1..Len(raw) |-> raw[i] \div g]
            n == Len(xs)
            T == SeqSum(xs)
            a == n * (n * SeqSumSq(xs) - T * T)
            b == (n - 1) * T * T
        IN  IF a >= b THEN 0
            ELSE
            LET k == ISqrtIn(FloorScaled(10000, a, b), 0, 10000)
                m == FloorScaled(20000, a, b)
                h == (2 * k + 1) * (2 * k + 1)
            IN  IF m < h THEN 10000 - k
                ELSE IF m = h /\ ExactScaled(20000, a, b)
                THEN (IF (10000 - k) % 2 = 0 THEN 10000 - k
                      ELSE 10000 - k - 1)
                ELSE 10000 - k - 1

get_raw_wpm(s, elapsed_seconds) ==
    calculate_raw_wpm(total_chars(s), elapsed_seconds)
get_accuracy(s) == calculate_accuracy(s.correct_chars, total_chars(s))
get_consistency(s) == calculate_consistency(s.word_speeds)

(***************************************************************************)
(* WordState                                                               *)
(***************************************************************************)
NewWordState(w) ==
    [word |-> w, typed |-> << >>, char_states |-> << >>,
     completed |-> FALSE, correct |-> TRUE,
     start_time |-> None, end_time |-> None]

WordWpm(ws) ==
    IF Truthy(ws.start_time) /\ Truthy(ws.end_time)
       /\ ws.end_time - ws.start_time > 0
    THEN calculate_wpm(Len(ws.word), ws.end_time - ws.start_time)
    ELSE 0

(***************************************************************************)
(* TestEngine: the engine state as a record, so that the private methods   *)
(* compose as the source calls them.                                       *)
(***************************************************************************)
Engine ==
    [mode |-> mode, mode_value |-> mode_value, difficulty |-> difficulty,
     word_states |-> word_states,
     current_word_index |-> current_word_index,
     current_char_index |-> current_char_index,
     status |-> status, start_time |-> start_time, end_time |-> end_time,
     time_limit |-> time_limit, stats |-> stats]

\* current_word is not None
HasCurrentWord(e) ==
    0 <= e.current_word_index /\ e.current_word_index < Len(e.word_states)
current_word(e) == e.word_states[e.current_word_index + 1]

elapsed_time_running(e, t) ==
    IF e.start_time = None THEN 0 ELSE t - e.start_time

elapsed_time(e, t) ==
    IF e.start_time = None THEN 0
    ELSE (IF Truthy(e.end_time) THEN e.end_time ELSE t) - e.start_time

\* remaining_time: None outside a time limit, else max(0, limit - elapsed)
remaining_time(e, t) ==
    IF e.time_limit = None THEN None
    ELSE Max(0, e.time_limit - elapsed_time(e, t))

\* progress, a percentage kept as the fraction num / den
progress(e, t) ==
    IF e.mode = "time"
    THEN IF Truthy(e.time_limit)
         THEN IF elapsed_time(e, t) * 100 <= 100 * e.time_limit
              THEN [num |-> elapsed_time(e, t) * 100, den |-> e.time_limit]
              ELSE [num |-> 100, den |-> 1]
         ELSE [num |-> 0, den |-> 1]
    ELSE IF Len(e.word_states) > 0
         THEN [num |-> e.current_word_index * 100,
               den |-> Len(e.word_states)]
         ELSE [num |-> 0, den |-> 1]

is_active_once_started(e) == e.status # NOT_STARTED

is_active(e) == e.status = IN_PROGRESS

\* A call's result: the engine after it, the returned action, the number
\* of on_update / on_complete invocations it made, the 'reason' of a
\* failure, the records handed to on_complete, and how the supply answered
\* ("not_asked", "delivered", "raised").
Outcome(e, action, updates, completes) ==
    [e |-> e, action |-> action, on_update |-> updates,
     on_complete |-> completes, reason |-> "", delivered |-> << >>,
     supply |-> "not_asked"]

get_results(e, t) ==
    LET elapsed == elapsed_time(e, t)
    IN  [mode |-> e.mode, mode_value |-> e.mode_value,
         difficulty |-> e.difficulty,
         wpm |-> get_wpm(e.stats, elapsed),
         raw_wpm |-> get_raw_wpm(e.stats, elapsed),
         accuracy |-> get_accuracy(e.stats),
         consistency |-> get_consistency(e.stats),
         duration |-> elapsed,
         characters_correct |-> e.stats.correct_chars,
         characters_incorrect |-> e.stats.incorrect_chars,
         characters_extra |-> e.stats.extra_chars,
         characters_missed |-> e.stats.missed_chars,
         words_completed |-> e.current_word_index,
         total_words |-> Len(e.word_states),
         status |-> e.status,
         wpm_history |-> e.stats.wpm_history,
         word_speeds |-> e.stats.word_speeds]

start_without_slot_stamp(e, t) ==
    IF e.status = NOT_STARTED
    THEN [e EXCEPT !.start_time = t, !.status = IN_PROGRESS]
    ELSE e

start(e, t) ==
    IF e.status = NOT_STARTED
    THEN LET e1 == [e EXCEPT !.start_time = t, !.status = IN_PROGRESS]
         IN  IF HasCurrentWord(e1)
             THEN [e1 EXCEPT
                     !.word_states[e1.current_word_index + 1].start_time = t]
             ELSE e1
    ELSE e

complete_test(e, t) ==
    LET e1 == [e EXCEPT !.end_time = t, !.status = COMPLETED]
        el == elapsed_time(e1, t)
        e2 == [e1 EXCEPT !.stats = record_wpm(@, el, get_wpm(@, el))]
    IN  [Outcome(e2, "test_completed", 0, 1) EXCEPT
            !.delivered = <<get_results(e2, t)>>]

fail_test_silent(e, t, reason) ==
    LET e1 == [e EXCEPT !.end_time = t, !.status = FAILED]
    IN  [Outcome(e1, "test_failed", 0, 0) EXCEPT !.reason = reason]

fail_test(e, t, reason) ==
    LET e1 == [e EXCEPT !.end_time = t, !.status = FAILED]
    IN  [Outcome(e1, "test_failed", 0, 1) EXCEPT
            !.reason = reason, !.delivered = <<get_results(e1, t)>>]


\* all(typed == exp for exp, typed, _ in char_states) if char_states else True
AllMatchNeverRestored(char_states) == FALSE

AllMatch(char_states) ==
    \A i \in 1..Len(char_states) : char_states[i][2] = char_states[i][1]

MasterCheckWrongLevel(e, is_correct, is_extra) ==
    ~is_extra /\ ~is_correct /\ e.difficulty = "expert"

\* the Master test of _handle_char: reached by an incorrect, non-extra char
MasterCheck(e, is_correct, is_extra) ==
    ~is_extra /\ ~is_correct /\ e.difficulty = "master"

handle_char(e, char, t) ==
    IF ~HasCurrentWord(e) THEN Outcome(e, "ignored", 0, 0)
    ELSE
    LET i == e.current_word_index + 1
        word == current_word(e)
        \* expected_char or ''
        expected_char ==
            IF e.current_char_index < Len(word.word)
            THEN word.word[e.current_char_index + 1] ELSE ""
        is_extra == e.current_char_index >= Len(word.word)
        is_correct == ~is_extra /\ char = expected_char
        e1 == [e EXCEPT
                 !.word_states[i].typed = Append(@, char),
                 !.word_states[i].char_states =
                     Append(@, <<expected_char, char, is_correct>>)]
        e2 == IF is_extra
              THEN [e1 EXCEPT !.stats = add_extra_char(@),
                              !.word_states[i].correct = FALSE]
              ELSE IF is_correct
              THEN [e1 EXCEPT !.stats = add_correct_char(@)]
              ELSE [e1 EXCEPT !.stats = add_incorrect_char(@),
                              !.word_states[i].correct = FALSE]
        e3 == [e2 EXCEPT !.current_char_index = @ + 1]
        el == elapsed_time(e3, t)
        e4 == IF total_chars(e3.stats) % SampleEvery = 0
              THEN [e3 EXCEPT !.stats = record_wpm(@, el, get_wpm(@, el))]
              ELSE e3
    IN  IF MasterCheck(e, is_correct, is_extra)
        THEN fail_test(e2, t, "Incorrect character in Master mode")
        ELSE Outcome(e4, "char_added", 1, 0)

handle_backspace(e) ==
    IF ~HasCurrentWord(e) \/ Len(current_word(e).typed) = 0
    THEN Outcome(e, "ignored", 0, 0)
    ELSE
    LET i == e.current_word_index + 1
        word == current_word(e)
        n == Len(word.typed)
        e1 == [e EXCEPT !.word_states[i].typed = SubSeq(@, 1, n - 1)]
        popped == word.char_states[Len(word.char_states)]
        was_correct == popped[3]
        e2 == IF Len(word.char_states) = 0 THEN e1
              ELSE LET e1p == [e1 EXCEPT !.word_states[i].char_states =
                                   SubSeq(@, 1, Len(@) - 1)]
                   IN  IF e.current_char_index > Len(word.word)
                       THEN [e1p EXCEPT !.stats.extra_chars = Max(0, @ - 1)]
                       ELSE IF was_correct
                       THEN [e1p EXCEPT !.stats.correct_chars = Max(0, @ - 1)]
                       ELSE [e1p EXCEPT
                               !.stats.incorrect_chars = Max(0, @ - 1)]
        e3 == [e2 EXCEPT !.current_char_index = Max(0, @ - 1)]
        e4 == [e3 EXCEPT !.word_states[i].correct =
                             AllMatch(e3.word_states[i].char_states)]
    IN  Outcome(e4, "char_deleted", 1, 0)

\* The words the supply hands to a Time-mode replenishment: a batch, or
\* "raise" when generate_words throws.
Replenishments ==
    {[raised |-> FALSE, words |-> l] : l \in WordLists(TimeWordBatch)}
    \cup {[raised |-> TRUE, words |-> << >>]}

NothingTypedNeverChecked(ws) == FALSE

\* len(word.typed) == 0: nothing to submit
NothingTyped(ws) == Len(ws.typed) = 0

ExpertCheckAnyDifficulty(e, ws) == ~ws.correct

\* the Expert test of _submit_word
ExpertCheck(e, ws) == e.difficulty = "expert" /\ ~ws.correct

NeedsMoreWordsWhenExhausted(e) ==
    e.mode = "time" /\ e.current_word_index >= Len(e.word_states)

\* the replenishment test of _submit_word
NeedsMoreWords(e) ==
    e.mode = "time"
    /\ e.current_word_index >= Len(e.word_states) - TimeLookahead

ExceptionCaughtNever(err) == FALSE

\* except Exception: whatever the supply raises is logged and dropped
ExceptionCaught(err) == TRUE

RECURSIVE AppendWords(_, _)
AppendWords(states, ws) ==
    IF Len(ws) = 0 THEN states
    ELSE AppendWords(Append(states, NewWordState(Head(ws))), Tail(ws))

submit_word(e, t, new_words) ==
    IF ~HasCurrentWord(e) THEN Outcome(e, "ignored", 0, 0)
    ELSE IF NothingTyped(current_word(e)) THEN Outcome(e, "ignored", 0, 0)
    ELSE
    LET i == e.current_word_index + 1
        word == current_word(e)
        e1 == [e EXCEPT !.word_states[i].completed = TRUE,
                        !.word_states[i].end_time = t]
        e2 == IF Len(word.typed) < Len(word.word)
              THEN [e1 EXCEPT
                      !.stats = add_missed_chars(@, Len(word.word)
                                                    - Len(word.typed)),
                      !.word_states[i].correct = FALSE]
              ELSE e1
        e3 == [e2 EXCEPT !.stats = complete_word(@, WordWpm(e2.word_states[i]))]
        e4 == [e3 EXCEPT !.current_word_index = @ + 1,
                         !.current_char_index = 0]
        e5 == IF HasCurrentWord(e4)
              THEN [e4 EXCEPT
                      !.word_states[e4.current_word_index + 1].start_time = t]
              ELSE e4
        e6 == IF NeedsMoreWords(e5) /\ ~new_words.raised
              THEN [e5 EXCEPT !.word_states = AppendWords(@, new_words.words)]
              ELSE e5
        supply == IF ~NeedsMoreWords(e5) THEN "not_asked"
                  ELSE IF new_words.raised THEN "raised" ELSE "delivered"
    IN  IF ExpertCheck(e3, e3.word_states[i])
        THEN fail_test(e3, t, "Incorrect word in Expert mode")
        ELSE IF e5.mode = "words"
                /\ e5.current_word_index >= Len(e5.word_states)
        THEN complete_test(e5, t)
        ELSE IF NeedsMoreWords(e5) /\ new_words.raised
                /\ ~ExceptionCaught(new_words)
        THEN Outcome(e5, "raised", 0, 0)
        ELSE [Outcome(e6, "word_submitted", 1, 0) EXCEPT !.supply = supply]

IsSingleCharOrEmpty(key) == Len(key) <= 1

\* len(key) == 1
IsSingleChar(key) == Len(key) = 1

\* process_key without its 'word is None' test: the key goes to its handler
process_key_without_word_test(e, key, t, new_words) ==
    LET e1 == IF e.status = NOT_STARTED
                 /\ key \notin {"backspace", "escape", "tab"}
              THEN start(e, t) ELSE e
    IN  IF ~is_active(e1) THEN Outcome(e1, "ignored", 0, 0)
        ELSE IF Truthy(e1.time_limit)
                /\ elapsed_time(e1, t) >= e1.time_limit
        THEN complete_test(e1, t)
        ELSE IF key = "space" THEN submit_word(e1, t, new_words)
        ELSE IF key = "backspace" THEN handle_backspace(e1)
        ELSE IF IsSingleChar(key) THEN handle_char(e1, key, t)
        ELSE Outcome(e1, "ignored", 0, 0)

process_key(e, key, t, new_words) ==
    LET e1 == IF e.status = NOT_STARTED
                 /\ key \notin {"backspace", "escape", "tab"}
              THEN start(e, t) ELSE e
    IN  IF ~is_active(e1) THEN Outcome(e1, "ignored", 0, 0)
        ELSE IF Truthy(e1.time_limit)
                /\ elapsed_time(e1, t) >= e1.time_limit
        THEN complete_test(e1, t)
        ELSE IF ~HasCurrentWord(e1) THEN complete_test(e1, t)
        ELSE IF key = "space" THEN submit_word(e1, t, new_words)
        ELSE IF key = "backspace" THEN handle_backspace(e1)
        ELSE IF IsSingleChar(key) THEN handle_char(e1, key, t)
        ELSE Outcome(e1, "ignored", 0, 0)

check_time_limit_starting(e, t) ==
    LET e1 == start(e, t)
    IN  IF Truthy(e1.time_limit) /\ is_active(e1)
           /\ elapsed_time(e1, t) >= e1.time_limit
        THEN [e |-> complete_test(e1, t).e, result |-> TRUE, on_complete |-> 1,
              delivered |-> complete_test(e1, t).delivered]
        ELSE [e |-> e1, result |-> FALSE, on_complete |-> 0,
              delivered |-> << >>]

check_time_limit(e, t) ==
    IF Truthy(e.time_limit) /\ is_active(e)
       /\ elapsed_time(e, t) >= e.time_limit
    THEN [e |-> complete_test(e, t).e, result |-> TRUE, on_complete |-> 1,
          delivered |-> complete_test(e, t).delivered]
    ELSE [e |-> e, result |-> FALSE, on_complete |-> 0, delivered |-> << >>]

\* reset(): the word sequence the mode builds, and the time limit.
ResetWordLists(m, mv) ==
    CASE m = "words" -> WordLists(mv)
      [] m = "time"  -> WordLists(TimeWordBuffer)
      [] m = "quote" -> QuoteWordLists
      [] OTHER       -> WordLists(DefaultWordCount)

ResetTimeLimitAlways(m, mv) == mv

ResetTimeLimit(m, mv) == IF m = "time" THEN mv ELSE None

WordStatesOf(ws) == AppendWords(<< >>, ws)


(***************************************************************************)
(* The state machine                                                       *)
(***************************************************************************)
\* WordGenerator(): empty cache, nothing called yet
GenIdle ==
    [op |-> "none", language |-> << >>, count |-> 0, punctuation |-> FALSE,
     numbers |-> FALSE, file |-> "", raised |-> FALSE, wordlist |-> << >>,
     drawn |-> << >>, words |-> << >>, cache |-> {}, calls |-> 0]

\* the tables after _init_database(): no test, no personal best
DbEmpty == [tests |-> << >>, personal_bests |-> {}]

\* LiveStats(): all counters zero, nothing called yet
CalcIdle ==
    [stats |-> LiveStatsReset, op |-> "none", args |-> << >>, result |-> 0]

Call(op, key, action, result, updates, completes) ==
    [op |-> op, key |-> key, action |-> action, result |-> result,
     on_update |-> updates, on_complete |-> completes,
     reason |-> "", delivered |-> << >>, supply |-> "not_asked"]

SetEngine(e) ==
    /\ word_states' = e.word_states
    /\ current_word_index' = e.current_word_index
    /\ current_char_index' = e.current_char_index
    /\ status' = e.status
    /\ start_time' = e.start_time
    /\ end_time' = e.end_time
    /\ time_limit' = e.time_limit
    /\ stats' = e.stats

Init ==
    /\ mode \in Modes
    /\ mode_value \in ModeValues(mode)
    /\ difficulty \in Difficulties
    /\ word_states \in {WordStatesOf(l) : l \in ResetWordLists(mode, mode_value)}
    /\ current_word_index = 0
    /\ current_char_index = 0
    /\ status = NOT_STARTED
    /\ start_time = None
    /\ end_time = None
    /\ time_limit = ResetTimeLimit(mode, mode_value)
    /\ stats = LiveStatsReset
    /\ now = 1
    /\ lastCall = Call("init", "", "none", FALSE, 0, 0)
    /\ on_complete_calls = 0
    /\ key_sent = FALSE
    /\ created_at = 1
    /\ resets = 0
    /\ gen = GenIdle
    /\ calc = CalcIdle
    /\ screen = "idle"
    /\ db = DbEmpty

\* The supply is asked for words only by a Time-mode submit.
SupplyOutcomes(key) ==
    IF mode = "time" /\ key = "space" THEN Replenishments
    ELSE {[raised |-> FALSE, words |-> << >>]}

\* engine.process_key(key)
\* engine.process_key(key) in a session of at most `most` typed characters
ProcessKeyWithin(key, most) ==
    \E new_words \in SupplyOutcomes(key) :
        LET out == process_key(Engine, key, now, new_words)
        IN  /\ out.e.stats.total_keystrokes <= most
            /\ SetEngine(out.e)
            /\ lastCall' = [Call("process_key", key, out.action, FALSE,
                                 out.on_update, out.on_complete) EXCEPT
                                !.reason = out.reason,
                                !.delivered = out.delivered,
                                !.supply = out.supply]
            /\ on_complete_calls' = on_complete_calls + out.on_complete
            /\ key_sent' = TRUE
            /\ UNCHANGED <<configVars, now, created_at, resets, unitVars>>

ProcessKey(key) ==
    /\ key \in Keys
    /\ ProcessKeyWithin(key, MaxKeystrokes)

\* engine.check_time_limit(), the caller's periodic poll
CheckTimeLimit ==
    LET out == check_time_limit(Engine, now)
    IN  /\ SetEngine(out.e)
        /\ lastCall' = [Call("check_time_limit", "", "none", out.result,
                             0, out.on_complete) EXCEPT
                            !.delivered = out.delivered]
        /\ on_complete_calls' = on_complete_calls + out.on_complete
        /\ UNCHANGED <<configVars, now, key_sent, created_at, resets,
                       unitVars>>

\* engine.reset()
Reset ==
    /\ resets < MaxResets
    /\ resets' = resets + 1
    /\ word_states' \in
           {WordStatesOf(l) : l \in ResetWordLists(mode, mode_value)}
    /\ current_word_index' = 0
    /\ current_char_index' = 0
    /\ status' = NOT_STARTED
    /\ start_time' = None
    /\ end_time' = None
    /\ time_limit' = ResetTimeLimit(mode, mode_value)
    /\ stats' = LiveStatsReset
    /\ lastCall' = Call("reset", "", "none", FALSE, 0, 0)
    /\ on_complete_calls' = 0
    /\ key_sent' = FALSE
    /\ created_at' = now
    /\ UNCHANGED <<configVars, now, unitVars>>

\* the wall clock advances between calls
Tick ==
    /\ now < MaxTime
    /\ now' = now + 1
    /\ lastCall' = Call("tick", "", "none", FALSE, 0, 0)
    /\ UNCHANGED <<configVars, engineVars, on_complete_calls, key_sent,
                   created_at, resets, unitVars>>

Next ==
    \/ \E key \in Keys : ProcessKey(key)
    \/ CheckTimeLimit
    \/ Reset
    \/ Tick

Spec == Init /\ [][Next]_vars

TypeOK ==
    /\ status \in {NOT_STARTED, IN_PROGRESS, COMPLETED, FAILED}
    /\ current_word_index \in 0..(Len(word_states))
    /\ current_char_index \in 0..(MaxKeystrokes + 1)
    /\ now \in 1..MaxTime


(***************************************************************************)
(* Vocabulary of the properties                                            *)
(***************************************************************************)
StartExcluded == {"backspace", "escape", "tab"}
HasSlot == current_word_index < Len(word_states)
CurSlot == word_states[current_word_index + 1]
KeyCalled == lastCall'.op = "process_key"
PollCalled == lastCall'.op = "check_time_limit"
\* the session is active for this key, after the auto-start
Live(key) ==
    status = IN_PROGRESS \/ (status = NOT_STARTED /\ key \notin StartExcluded)
\* the time check of process_key pre-empts the key
Preempted ==
    /\ time_limit \notin {None, 0}
    /\ start_time # None
    /\ now - start_time >= time_limit
\* the key is handed to its handler
Dispatched(key) == Live(key) /\ ~Preempted /\ HasSlot
\* a character that differs from the expected one inside the expected word
Mismatch(key) ==
    /\ Len(key) = 1
    /\ current_char_index < Len(CurSlot.word)
    /\ key # CurSlot.word[current_char_index + 1]
Counters(st) ==
    <<st.correct_chars, st.incorrect_chars, st.extra_chars, st.missed_chars,
      st.total_keystrokes>>

(***************************************************************************)
(* C1: once the status is Completed or Failed, every process_key call      *)
(* returns 'ignored' and every check_time_limit call returns false, and    *)
(* neither changes any engine field (status, cursors, slots, LiveStats     *)
(* counters, word_speeds, wpm_history, start_time, end_time); the status    *)
(* leaves the terminal state only by reset(), which gives NotStarted.      *)
(***************************************************************************)
C1_Step ==
    status \in Terminal =>
        /\ (KeyCalled => lastCall'.action = "ignored")
        /\ (PollCalled => lastCall'.result = FALSE)
        /\ (KeyCalled \/ PollCalled => UNCHANGED engineVars)
        /\ (status' # status =>
               lastCall'.op = "reset" /\ status' = NOT_STARTED)

C1_TerminalAbsorbing == [][C1_Step]_vars

C1_Witness ==
    /\ status \in Terminal
    /\ lastCall.op = "process_key"
    /\ Len(lastCall.key) = 1
    /\ lastCall.action = "ignored"

(***************************************************************************)
(* C2: between one reset and the next, on_complete has been invoked         *)
(* exactly once when the session is Completed or Failed and never when it  *)
(* is not; the count therefore moves from 0 to 1 in the very call that     *)
(* makes the terminal transition, whatever the interleaving of keys and    *)
(* polls.                                                                  *)
(***************************************************************************)
C2_OnCompleteOnce ==
    /\ on_complete_calls = (IF status \in Terminal THEN 1 ELSE 0)
    /\ (lastCall.on_complete = 1 => status \in Terminal)

C2_Witness ==
    /\ mode = "time"
    /\ status = COMPLETED
    /\ lastCall.op = "check_time_limit"
    /\ lastCall.result = FALSE
    /\ on_complete_calls = 1

(***************************************************************************)
(* C3: under Master difficulty a character key handed to the character     *)
(* handler that differs from the expected character at a position inside   *)
(* the expected word makes the session Failed in that same call, which     *)
(* returns 'test_failed', at any position of any word; hence every Master  *)
(* state that is InProgress or Completed has incorrect_chars = 0.          *)
(***************************************************************************)
C3_Step ==
    difficulty = "master" /\ KeyCalled /\ Dispatched(lastCall'.key)
    /\ Mismatch(lastCall'.key)
        => status' = FAILED /\ lastCall'.action = "test_failed"

C4_Step ==
    difficulty = "expert" /\ KeyCalled =>
        /\ (lastCall'.key = "space" /\ Dispatched("space")
            /\ Len(CurSlot.typed) > 0
               => (status' = FAILED <=> CurSlot.typed # CurSlot.word))
        /\ (Len(lastCall'.key) = 1 /\ status # FAILED => status' # FAILED)

C5_FailStep ==
    status # FAILED /\ status' = FAILED =>
        /\ KeyCalled
        /\ Dispatched(lastCall'.key)
        /\ \/ difficulty = "master" /\ Mismatch(lastCall'.key)
           \/ /\ difficulty = "expert"
              /\ lastCall'.key = "space"
              /\ Len(CurSlot.typed) > 0
              /\ CurSlot.typed # CurSlot.word

C5_NormalSubmitStep ==
    difficulty = "normal" /\ KeyCalled /\ lastCall'.key = "space"
    /\ Dispatched("space") /\ Len(CurSlot.typed) > 0
    /\ CurSlot.typed # CurSlot.word
        => /\ current_word_index' = current_word_index + 1
           /\ ~word_states'[current_word_index + 1].correct
           /\ word_states'[current_word_index + 1].completed
           /\ status' \in {IN_PROGRESS, COMPLETED}

C5_FailureOnlyByDifficulty ==
    /\ [](difficulty = "normal" => status # FAILED)
    /\ [][C5_FailStep]_vars
    /\ [][C5_NormalSubmitStep]_vars

C5_Witness ==
    /\ difficulty = "normal"
    /\ lastCall.key = "space"
    /\ lastCall.action = "word_submitted"
    /\ current_word_index = 1
    /\ word_states[1].typed # word_states[1].word
    /\ ~word_states[1].correct
    /\ status = IN_PROGRESS


(***************************************************************************)
(* C6: in Words mode and in Custom mode the 'space' that submits the last  *)
(* slot of the sequence without a difficulty failure makes the session     *)
(* Completed in that same call, which returns 'test_completed'.            *)
(***************************************************************************)
LastSlotSubmitted ==
    /\ KeyCalled
    /\ lastCall'.key = "space"
    /\ Dispatched("space")
    /\ Len(CurSlot.typed) > 0
    /\ current_word_index = Len(word_states) - 1
    /\ status' # FAILED

C6_Step ==
    mode \in {"words", "custom"} /\ LastSlotSubmitted
        => status' = COMPLETED /\ lastCall'.action = "test_completed"

C6_LastSubmitCompletes == [][C6_Step]_vars

(***************************************************************************)
(* C7: while InProgress with a time limit, for every limit value and every *)
(* key: if elapsed >= time_limit, process_key returns 'test_completed'     *)
(* without applying the key (slots, cursors, the four character counters   *)
(* and total_keystrokes unchanged) and check_time_limit returns true in    *)
(* exactly those states; if elapsed < time_limit neither call ends the     *)
(* session on time grounds.                                                *)
(***************************************************************************)
C7_Step ==
    status = IN_PROGRESS /\ time_limit # None =>
        /\ (KeyCalled /\ now - start_time >= time_limit
               => /\ lastCall'.action = "test_completed"
                  /\ status' = COMPLETED
                  /\ UNCHANGED <<word_states, current_word_index,
                                 current_char_index>>
                  /\ Counters(stats') = Counters(stats))
        /\ (PollCalled
               => (lastCall'.result = TRUE <=> now - start_time >= time_limit))
        /\ (PollCalled /\ now - start_time < time_limit
               => status' = IN_PROGRESS)
        /\ (KeyCalled /\ now - start_time < time_limit /\ HasSlot
               => lastCall'.action # "test_completed" \/ mode = "words")

C7_TimeLimitPreempts == [][C7_Step]_vars

(***************************************************************************)
(* C8: in Time mode with limit L, if no keystroke is ever sent, a          *)
(* check_time_limit() call made once L seconds have passed returns true    *)
(* and the session is Completed with words_completed = 0.  (Stated for     *)
(* L > 0.)                                                                 *)
(***************************************************************************)
C8_IdleSessionTimesOut ==
    (/\ mode = "time"
     /\ time_limit > 0
     /\ ~key_sent
     /\ lastCall.op = "check_time_limit"
     /\ now - created_at >= time_limit)
        => /\ lastCall.result = TRUE
           /\ status = COMPLETED
           /\ current_word_index = 0

(***************************************************************************)
(* C8 as amended: in Time mode with limit L, if no keystroke is ever sent  *)
(* the session never starts: the status stays NotStarted, start_time stays *)
(* unset, words_completed stays 0, on_complete is not invoked and every    *)
(* check_time_limit() call returns false, however much time has passed.    *)
(***************************************************************************)
C8_IdleSessionNeverStarts ==
    mode = "time" /\ ~key_sent
        => /\ status = NOT_STARTED
           /\ start_time = None
           /\ end_time = None
           /\ current_word_index = 0
           /\ on_complete_calls = 0
           /\ (lastCall.op = "check_time_limit" => lastCall.result = FALSE)

C8_Witness ==
    /\ mode = "time"
    /\ time_limit > 0
    /\ ~key_sent
    /\ lastCall.op = "check_time_limit"
    /\ now - created_at >= time_limit
    /\ lastCall.result = FALSE
    /\ status = NOT_STARTED

(***************************************************************************)
(* C9: from NotStarted, process_key(key) moves the session to InProgress   *)
(* if and only if key is not 'backspace', 'escape' or 'tab'; that call     *)
(* sets the session start_time and the first slot's start_time to the same *)
(* value; no other operation leaves NotStarted.                            *)
(***************************************************************************)
C9_Step ==
    status = NOT_STARTED =>
        /\ (KeyCalled /\ lastCall'.key \notin StartExcluded
               => /\ status' = IN_PROGRESS
                  /\ start_time' = now
                  /\ (Len(word_states) > 0
                         => word_states'[1].start_time = start_time'))
        /\ (~(KeyCalled /\ lastCall'.key \notin StartExcluded)
               => status' = NOT_STARTED)

C9_FirstKeyStarts == [][C9_Step]_vars

(***************************************************************************)
(* C9 as amended: from NotStarted, process_key(key) takes the session out  *)
(* of NotStarted if and only if key is not 'backspace', 'escape' or 'tab'; *)
(* that call sets the session start_time and, when a first slot exists,    *)
(* that slot's start_time to the same value; after the call the session is *)
(* InProgress unless the same call also ends it (Master difficulty and a   *)
(* wrong first character: Failed; no word slot: Completed); no other        *)
(* operation leaves NotStarted, and none sets start_time there.            *)
(***************************************************************************)
C9_StatusAfterStart(key) ==
    IF Len(word_states) = 0 THEN COMPLETED
    ELSE IF difficulty = "master" /\ Mismatch(key) THEN FAILED
    ELSE IN_PROGRESS

C9_AmendedStep ==
    status = NOT_STARTED =>
        /\ (KeyCalled /\ lastCall'.key \notin StartExcluded
               => /\ status' = C9_StatusAfterStart(lastCall'.key)
                  /\ start_time' = now
                  /\ (Len(word_states) > 0
                         => word_states'[1].start_time = start_time'))
        /\ (~(KeyCalled /\ lastCall'.key \notin StartExcluded)
               => status' = NOT_STARTED /\ start_time' = None)

C9_FirstKeyLeavesNotStarted == [][C9_AmendedStep]_vars

C9_Witness ==
    /\ lastCall.op = "process_key"
    /\ lastCall.key = "enter"
    /\ status = IN_PROGRESS
    /\ start_time = now
    /\ word_states[1].start_time = start_time
    /\ stats.total_keystrokes = 0
    /\ current_char_index = 0

(***************************************************************************)
(* C10: whenever the current slot's typed text is empty and no time limit  *)
(* has expired, process_key('space') returns 'ignored' and leaves          *)
(* current_word_index, current_char_index, every word slot, every          *)
(* LiveStats counter and word_speeds unchanged.                            *)
(***************************************************************************)
SpaceOnEmptySlot ==
    /\ KeyCalled
    /\ lastCall'.key = "space"
    /\ HasSlot
    /\ Len(CurSlot.typed) = 0
    /\ ~(status = IN_PROGRESS /\ Preempted)

C10_Step ==
    SpaceOnEmptySlot
        => /\ lastCall'.action = "ignored"
           /\ UNCHANGED <<current_word_index, current_char_index,
                          word_states>>
           /\ Counters(stats') = Counters(stats)
           /\ stats'.word_speeds = stats.word_speeds

C10_SpaceOnEmptyIsNoOp == [][C10_Step]_vars

(***************************************************************************)
(* C10 as amended: the same, except that the slots are unchanged in their  *)
(* typed text, keystroke records, completed and all_correct flags and      *)
(* end_time only: from NotStarted the call still starts the session        *)
(* (status InProgress, start_time set on the session and on the first      *)
(* slot); in every other status nothing at all changes.                    *)
(***************************************************************************)
SlotContent(ws) ==
    <<ws.word, ws.typed, ws.char_states, ws.completed, ws.correct,
      ws.end_time>>

C10_AmendedStep ==
    SpaceOnEmptySlot
        => /\ lastCall'.action = "ignored"
           /\ UNCHANGED <<current_word_index, current_char_index, stats>>
           /\ Len(word_states') = Len(word_states)
           /\ \A i \in 1..Len(word_states) :
                  SlotContent(word_states'[i]) = SlotContent(word_states[i])
           /\ IF status = NOT_STARTED
              THEN /\ status' = IN_PROGRESS
                   /\ start_time' = now
                   /\ word_states'[1].start_time = now
              ELSE UNCHANGED engineVars

C10_SpaceOnEmptySkipsNothing == [][C10_AmendedStep]_vars

\* a second 'space' right after a submit
C10_Witness ==
    /\ lastCall.op = "process_key"
    /\ lastCall.key = "space"
    /\ lastCall.action = "ignored"
    /\ status = IN_PROGRESS
    /\ current_word_index = 1
    /\ HasSlot
    /\ Len(CurSlot.typed) = 0
    /\ word_states[1].completed

(***************************************************************************)
(* C11: from any state in which the session is InProgress, N character     *)
(* keys that are each applied by the character handler (any mix of         *)
(* correct, incorrect and extra characters, none ending the session)       *)
(* followed by N 'backspace' keys that are each applied by the backspace   *)
(* handler restore the current slot's typed text, keystroke records and    *)
(* all_correct flag, current_char_index and the correct / incorrect /      *)
(* extra / missed counters to their values before the N characters, while  *)
(* total_keystrokes ends exactly N higher.  Checked for N up to            *)
(* MaxRoundTrip, at every clock value the keys can arrive at.              *)
(***************************************************************************)
MaxRoundTrip == 2

NoSupply == [raised |-> FALSE, words |-> << >>]

RoundTripFields(e) ==
    <<current_word(e).typed, current_word(e).char_states,
      current_word(e).correct, e.current_char_index,
      e.stats.correct_chars, e.stats.incorrect_chars,
      e.stats.extra_chars, e.stats.missed_chars>>

\* the engines after n more character keys, each answered 'char_added'
RECURSIVE AfterChars(_, _, _)
AfterChars(engines, n, t) ==
    IF n = 0 THEN engines
    ELSE AfterChars(
             {process_key(e, c, t, NoSupply).e :
                  <<e, c>> \in {x \in engines \X CharKeys :
                      process_key(x[1], x[2], t, NoSupply).action
                          = "char_added"}},
             n - 1, t)

\* n 'backspace' keys, each answered 'char_deleted', bring e back to e0
RECURSIVE ErasedBackTo(_, _, _, _)
ErasedBackTo(e, n, t, e0) ==
    IF n = 0
    THEN /\ RoundTripFields(e) = RoundTripFields(e0)
         /\ e.current_word_index = e0.current_word_index
    ELSE LET back == process_key(e, "backspace", t, NoSupply)
         IN  back.action = "char_deleted"
             => /\ back.e.stats.total_keystrokes = e.stats.total_keystrokes
                /\ ErasedBackTo(back.e, n - 1, t, e0)

OtherKeys == {k \in Keys : Len(k) # 1 /\ k \notin {"space", "backspace"}}

OtherKeyCalled ==
    /\ KeyCalled
    /\ lastCall'.key \in OtherKeys
    /\ ~(status = IN_PROGRESS /\ Preempted)

C12_Step ==
    OtherKeyCalled
        => lastCall'.action = "ignored" /\ UNCHANGED engineVars

C12_OtherKeysChangeNothing == [][C12_Step]_vars

(***************************************************************************)
(* C12 as amended: such a key returns 'ignored' and changes nothing when   *)
(* the session is Completed or Failed, when it is InProgress with a        *)
(* current slot and no expired time limit, and when it is NotStarted and   *)
(* the key is 'escape' or 'tab'.  From NotStarted any other such token     *)
(* ('enter', the empty string) starts the session: with a first slot the   *)
(* call returns 'ignored', sets status InProgress and stamps start_time on *)
(* the session and on the first slot, and changes nothing else.  When the  *)
(* session is or becomes InProgress with no current slot, the call         *)
(* completes it and returns 'test_completed'.                              *)
(***************************************************************************)
C12_AmendedStep ==
    OtherKeyCalled =>
        IF status \in Terminal
           \/ (status = NOT_STARTED /\ lastCall'.key \in StartExcluded)
           \/ (status = IN_PROGRESS /\ HasSlot)
        THEN lastCall'.action = "ignored" /\ UNCHANGED engineVars
        ELSE IF HasSlot
        THEN /\ status = NOT_STARTED
             /\ lastCall'.action = "ignored"
             /\ status' = IN_PROGRESS
             /\ start_time' = now
             /\ word_states'[1].start_time = now
             /\ Len(word_states') = Len(word_states)
             /\ \A i \in 1..Len(word_states) :
                    SlotContent(word_states'[i]) = SlotContent(word_states[i])
             /\ \A i \in 2..Len(word_states) :
                    word_states'[i] = word_states[i]
             /\ UNCHANGED <<current_word_index, current_char_index, stats,
                            end_time, time_limit>>
        ELSE /\ lastCall'.action = "test_completed"
             /\ status' = COMPLETED
             /\ UNCHANGED <<word_states, current_word_index,
                            current_char_index>>

C12_OtherKeysNeverType == [][C12_AmendedStep]_vars

\* the empty token inside a word, after a character was typed
C12_Witness ==
    /\ lastCall.op = "process_key"
    /\ lastCall.key = ""
    /\ lastCall.action = "ignored"
    /\ status = IN_PROGRESS
    /\ HasSlot
    /\ Len(CurSlot.typed) = 1
    /\ stats.total_keystrokes = 1

(***************************************************************************)
(* C13: in every reachable state and for every key token, process_key      *)
(* returns an outcome whose action is one of ignored, char_added,          *)
(* char_deleted, word_submitted, test_completed, test_failed and never     *)
(* raises (an exception of the supply is not passed on), including when    *)
(* the word sequence is empty or the cursor is past the last slot.         *)
(***************************************************************************)
Actions == {"ignored", "char_added", "char_deleted", "word_submitted",
            "test_completed", "test_failed"}

C13_AlwaysAnOutcome ==
    /\ lastCall.op = "process_key" => lastCall.action \in Actions
    /\ \A key \in Keys : \A w \in Replenishments :
           process_key(Engine, key, now, w).action \in Actions

\* a Time-mode submit whose replenishment failed
C13_Witness ==
    /\ lastCall.op = "process_key"
    /\ lastCall.key = "space"
    /\ lastCall.supply = "raised"
    /\ lastCall.action = "word_submitted"
    /\ status = IN_PROGRESS

(***************************************************************************)
(* C14: after construction or reset in Words mode or in Custom mode, the   *)
(* word sequence holds exactly mode_value slots, for every mode_value >= 0.*)
(***************************************************************************)
C14_ExactlyModeValueSlots ==
    mode \in {"words", "custom"} /\ lastCall.op \in {"init", "reset"}
        => Len(word_states) = mode_value

(***************************************************************************)
(* C15: in Words mode, for any non-empty word sequence and any difficulty, *)
(* typing every expected word exactly, character by character, each        *)
(* followed by 'space', ends with status Completed, every slot             *)
(* all_correct = true, characters_correct = total length of all words,     *)
(* characters_incorrect = characters_extra = characters_missed = 0 and     *)
(* words_completed = total_words, and the reported wpm equals the wpm      *)
(* formula applied to characters_correct and duration.                     *)
(***************************************************************************)
RECURSIVE TotalLength(_)
TotalLength(slots) ==
    IF Len(slots) = 0 THEN 0
    ELSE Len(Head(slots).word) + TotalLength(Tail(slots))

\* every word was typed exactly, with no other character key, and submitted
TypedExactly ==
    /\ Len(word_states) > 0
    /\ current_word_index = Len(word_states)
    /\ \A i \in 1..Len(word_states) :
           word_states[i].typed = word_states[i].word
    /\ stats.total_keystrokes = TotalLength(word_states)

\* round((c / 5) / (d / 60), 2) in hundredths, 0 for d <= 0
WpmFormula(c, d) ==
    IF d <= 0 THEN 0
    ELSE LET n == 100 * 60 * c
             m == 5 * d
         IN  IF 2 * (n % m) < m \/ (2 * (n % m) = m /\ (n \div m) % 2 = 0)
             THEN n \div m ELSE (n \div m) + 1

C16_Step ==
    status \notin Terminal /\ status' \in Terminal =>
        /\ end_time' = now
        /\ Len(lastCall'.delivered) = 1
        /\ LET r == lastCall'.delivered[1]
               d == end_time' - start_time'
           IN  /\ r.duration = d
               /\ Len(stats'.wpm_history) > 0
               /\ r.wpm_history = stats'.wpm_history
               /\ r.wpm_history[Len(r.wpm_history)] = <<d, r.wpm>>

C16_FinalSampleOnEveryEnd == [][C16_Step]_vars

(***************************************************************************)
(* C17: every process_key call that mutates a slot, a cursor or a counter  *)
(* (an accepted character, an effective backspace, a word submit) invokes  *)
(* on_update exactly once after the mutation, for every difficulty and     *)
(* mode and also when that call ends the session; calls that return        *)
(* 'ignored' never invoke it.                                              *)
(***************************************************************************)
\* the call typed, deleted or submitted something
Mutated ==
    \/ current_word_index' # current_word_index
    \/ current_char_index' # current_char_index
    \/ Counters(stats') # Counters(stats)
    \/ \E i \in 1..Len(word_states) :
           SlotContent(word_states'[i]) # SlotContent(word_states[i])

C17_Step ==
    KeyCalled =>
        /\ (Mutated => lastCall'.on_update = 1)
        /\ (lastCall'.action = "ignored" => lastCall'.on_update = 0)

C17_UpdateAfterEveryMutation == [][C17_Step]_vars

(***************************************************************************)
(* C18: every Expert/Master failure is reported as a returned outcome with *)
(* action 'test_failed' and a non-empty reason naming the difficulty rule, *)
(* and the ResultsRecord delivered to the completion callback for that     *)
(* session carries that reason in its status field.                        *)
(***************************************************************************)
C18_Step ==
    status # FAILED /\ status' = FAILED =>
        /\ lastCall'.action = "test_failed"
        /\ lastCall'.reason # ""
        /\ Len(lastCall'.delivered) = 1
        /\ lastCall'.delivered[1].status = lastCall'.reason

C18_FailureReasonInRecord == [][C18_Step]_vars

(***************************************************************************)
(* C19: reset() called in any reachable state yields status NotStarted,    *)
(* both cursors 0, start_time and end_time unset, all five LiveStats       *)
(* counters 0, empty word_speeds and wpm_history, and a freshly built      *)
(* sequence whose slots all have empty typed text, no keystroke records,   *)
(* completed = false and all_correct = true; time_limit equals mode_value  *)
(* in Time mode and is unset otherwise; mode, mode_value and difficulty    *)
(* are unchanged.                                                          *)
(***************************************************************************)
C19_Step ==
    lastCall'.op = "reset" =>
        /\ status' = NOT_STARTED
        /\ current_word_index' = 0
        /\ current_char_index' = 0
        /\ start_time' = None
        /\ end_time' = None
        /\ Counters(stats') = <<0, 0, 0, 0, 0>>
        /\ stats'.word_speeds = << >>
        /\ stats'.wpm_history = << >>
        /\ \A i \in 1..Len(word_states') :
               /\ word_states'[i].typed = << >>
               /\ word_states'[i].char_states = << >>
               /\ ~word_states'[i].completed
               /\ word_states'[i].correct
               /\ word_states'[i].start_time = None
               /\ word_states'[i].end_time = None
        /\ time_limit' = (IF mode = "time" THEN mode_value ELSE None)
        /\ UNCHANGED <<mode, mode_value, difficulty>>

C19_ResetRestoresInitialState == [][C19_Step]_vars

\* a reset of a Words session (no time limit) that had been typed in
C19_Witness ==
    /\ lastCall.op = "reset"
    /\ resets = 1
    /\ mode = "words"
    /\ mode_value = 2
    /\ time_limit = None
    /\ status = NOT_STARTED
    /\ now = 2

(***************************************************************************)
(* C20: in Time mode a successful submit asks the supply for one batch of  *)
(* new slots exactly when fewer than TimeLookahead (10) un-started slots   *)
(* remain after the new current slot, and never otherwise, and appends the *)
(* batch the supply delivers; the append leaves current_word_index,        *)
(* current_char_index and every existing slot as the submit left them, and *)
(* the sequence never shrinks between resets; in every other mode the      *)
(* sequence length never changes after reset.                              *)
(***************************************************************************)
SupplyFails == [raised |-> TRUE, words |-> << >>]

C20_SubmitStep ==
    mode = "time" /\ KeyCalled /\ lastCall'.action = "word_submitted" =>
        LET remaining == Len(word_states) - (current_word_index' + 1)
            plain == process_key(Engine, "space", now, SupplyFails).e
            old == Len(word_states)
        IN  /\ (lastCall'.supply # "not_asked" <=> remaining < TimeLookahead)
            /\ lastCall'.supply = "delivered"
                   => Len(word_states') = old + TimeWordBatch
            /\ lastCall'.supply # "delivered" => Len(word_states') = old
            /\ current_word_index' = current_word_index + 1
            /\ current_char_index' = 0
            /\ SubSeq(word_states', 1, old) = plain.word_states
            /\ \A i \in (old + 1)..Len(word_states') :
                   \E w \in WordPool : word_states'[i] = NewWordState(w)

C20_LengthStep ==
    lastCall'.op # "reset" =>
        /\ Len(word_states') >= Len(word_states)
        /\ Len(word_states') # Len(word_states)
               => /\ mode = "time"
                  /\ KeyCalled
                  /\ lastCall'.action = "word_submitted"
                  /\ lastCall'.supply = "delivered"

C21_FailedSupplyStep ==
    mode = "time" /\ KeyCalled /\ lastCall'.supply = "raised"
        => /\ lastCall'.action = "word_submitted"
           /\ current_word_index' = current_word_index + 1
           /\ status' = IN_PROGRESS

C21_LookaheadKept ==
    mode = "time" /\ status = IN_PROGRESS
        => /\ HasSlot
           /\ Len(word_states) - (current_word_index + 1) >= TimeLookahead

C21_BufferSurvivesFailedSupply ==
    [][C21_FailedSupplyStep]_vars /\ []C21_LookaheadKept

(***************************************************************************)
(* C22: in every reachable state elapsed_time is 0 before start and, after *)
(* a terminal transition, stays equal to end_time - start_time however far *)
(* the clock advances; remaining_time is absent outside Time mode and      *)
(* equals max(0, time_limit - elapsed_time) in Time mode; progress lies in *)
(* [0, 100], equals 100 * current_word_index / number of slots outside     *)
(* Time mode and min(100, 100 * elapsed_time / time_limit) in Time mode    *)
(* (where the divisor is 0 the value is 0).                                *)
(***************************************************************************)
C22_DerivedReadings ==
    \A t \in now..(MaxTime + 1) :
        LET el == elapsed_time(Engine, t)
            rem == remaining_time(Engine, t)
            pr == progress(Engine, t)
        IN  /\ status = NOT_STARTED => el = 0
            /\ status \notin Terminal /\ status # NOT_STARTED
                   => el = t - start_time
            /\ status \in Terminal => el = end_time - start_time
            /\ mode # "time" => rem = None
            /\ mode = "time" =>
                   /\ rem # None
                   /\ rem >= 0
                   /\ rem >= time_limit - el
                   /\ rem = 0 \/ rem = time_limit - el
            /\ pr.den > 0 /\ 0 <= pr.num /\ pr.num <= 100 * pr.den
            /\ mode # "time" /\ Len(word_states) > 0
                   => pr.num * Len(word_states)
                          = 100 * current_word_index * pr.den
            /\ mode = "time" /\ time_limit > 0
                   => /\ pr.num * time_limit <= 100 * el * pr.den
                      /\ \/ pr.num = 100 * pr.den
                         \/ pr.num * time_limit = 100 * el * pr.den
            /\ (mode # "time" /\ Len(word_states) = 0) => pr.num = 0
            /\ (mode = "time" /\ time_limit = 0) => pr.num = 0

\* a Time session that ended at its limit, read one second later
C22_Witness ==
    /\ mode = "time"
    /\ status = COMPLETED
    /\ time_limit = 1
    /\ end_time - start_time = 1
    /\ elapsed_time(Engine, end_time + 1) = 1
    /\ remaining_time(Engine, end_time + 1) = 0
    /\ progress(Engine, end_time + 1) = [num |-> 100, den |-> 1]

(***************************************************************************)
(* C30: in every reachable state 0 <= current_word_index <= number of      *)
(* slots; and whenever status is InProgress, in every mode, the slot at    *)
(* current_word_index exists and 0 <= current_char_index <= length of that *)
(* slot's typed text.                                                      *)
(***************************************************************************)
C30_CursorsInRange ==
    /\ 0 <= current_word_index
    /\ current_word_index <= Len(word_states)
    /\ status = IN_PROGRESS
           => /\ HasSlot
              /\ 0 <= current_char_index
              /\ current_char_index <= Len(CurSlot.typed)

(***************************************************************************)
(* StatsCalculator and LiveStats on their own: the static functions are    *)
(* applied to arguments drawn at the start, and a LiveStats object is      *)
(* driven through its recording methods.                                   *)
(***************************************************************************)
MaxStatChars == 2       \* characters recorded by the LiveStats object
MaxSpeeds == 3          \* longest sequence of word speeds
MaxSeconds == 2         \* largest small elapsed time

CharCounts == (-1..MaxStatChars) \cup {95, 250}
Seconds == (-1..MaxSeconds) \cup {32, 60}
Totals == {8, 100}
SpeedValues == {-1, 0, 1, 3}

RECURSIVE SpeedSeqs(_)
SpeedSeqs(n) ==
    IF n = 0 THEN {<< >>}
    ELSE SpeedSeqs(n - 1)
         \cup {Append(q, v) : q \in {x \in SpeedSeqs(n - 1) : Len(x) = n - 1},
                               v \in SpeedValues}

StaticArgs ==
    {<<c, t>> : c \in CharCounts, t \in Seconds \cup Totals}
    \cup SpeedSeqs(MaxSpeeds)

\* an engine that is constructed and left alone
SessionParked ==
    /\ mode = "words"
    /\ mode_value = 0
    /\ difficulty = "normal"
    /\ word_states = << >>
    /\ current_word_index = 0
    /\ current_char_index = 0
    /\ status = NOT_STARTED
    /\ start_time = None
    /\ end_time = None
    /\ time_limit = None
    /\ stats = LiveStatsReset
    /\ now = 1
    /\ lastCall = Call("init", "", "none", FALSE, 0, 0)
    /\ on_complete_calls = 0
    /\ key_sent = FALSE
    /\ created_at = 1
    /\ resets = 0
    /\ screen = "idle"

InitStats ==
    /\ SessionParked
    /\ db = DbEmpty
    /\ gen = GenIdle
    /\ calc \in {[CalcIdle EXCEPT !.args = a] : a \in StaticArgs}
                \cup {[CalcIdle EXCEPT !.op = "new"]}

StaticCall(name, value) ==
    /\ calc.op = "none"
    /\ calc' = [calc EXCEPT !.op = name, !.result = value]
    /\ UNCHANGED <<sessionVars, gen, db>>

\* StatsCalculator.calculate_wpm(c, t)
CalcWpm ==
    /\ Len(calc.args) = 2
    /\ StaticCall("calculate_wpm", calculate_wpm(calc.args[1], calc.args[2]))

\* StatsCalculator.calculate_raw_wpm(c, t)
CalcRawWpm ==
    /\ Len(calc.args) = 2
    /\ StaticCall("calculate_raw_wpm",
                  calculate_raw_wpm(calc.args[1], calc.args[2]))

\* StatsCalculator.calculate_accuracy(c, n)
CalcAccuracy ==
    /\ Len(calc.args) = 2
    /\ StaticCall("calculate_accuracy",
                  calculate_accuracy(calc.args[1], calc.args[2]))

\* StatsCalculator.calculate_consistency(speeds)
CalcConsistency ==
    /\ calc.args \in Seq(Int)
    /\ StaticCall("calculate_consistency", calculate_consistency(calc.args))

\* a recording method of the LiveStats object
StatsUpdate(s) ==
    /\ calc.op \in {"new", "update"}
    /\ calc' = [calc EXCEPT !.op = "update", !.stats = s]
    /\ UNCHANGED <<sessionVars, gen, db>>

StatsAddCorrect ==
    /\ calc.stats.total_keystrokes < MaxStatChars
    /\ StatsUpdate(add_correct_char(calc.stats))

StatsAddIncorrect ==
    /\ calc.stats.total_keystrokes < MaxStatChars
    /\ StatsUpdate(add_incorrect_char(calc.stats))

StatsAddExtra ==
    /\ calc.stats.total_keystrokes < MaxStatChars
    /\ StatsUpdate(add_extra_char(calc.stats))

StatsAddMissed(count) ==
    /\ calc.stats.missed_chars + count <= MaxStatChars
    /\ StatsUpdate(add_missed_chars(calc.stats, count))

StatsCompleteWord(word_wpm) ==
    /\ Len(calc.stats.word_speeds) < MaxSpeeds
    /\ StatsUpdate(complete_word(calc.stats, word_wpm))

NextStats ==
    \/ CalcWpm
    \/ CalcRawWpm
    \/ CalcAccuracy
    \/ CalcConsistency
    \/ StatsAddCorrect
    \/ StatsAddIncorrect
    \/ StatsAddExtra
    \/ \E count \in 1..MaxStatChars : StatsAddMissed(count)
    \/ \E word_wpm \in SpeedValues : StatsCompleteWord(word_wpm)

SpecStats == InitStats /\ [][NextStats]_vars

(***************************************************************************)
(* C23: for all integer inputs wpm(c, t) and raw_wpm(c, t) return 0 when   *)
(* t <= 0 and otherwise 12*c/t rounded to two decimals (so wpm(250, 60) =  *)
(* 50); accuracy(c, n) returns 100 when n <= 0 and otherwise 100*c/n       *)
(* rounded to two decimals (so accuracy(95, 100) = 95); the session's      *)
(* raw_wpm and accuracy use correct + incorrect characters only, so extra  *)
(* and missed characters never change wpm, raw_wpm or accuracy.            *)
(***************************************************************************)
Abs(x) == IF x < 0 THEN -x ELSE x

\* h hundredths is n / d rounded to two decimals  (d > 0)
IsRounded(h, n, d) == 2 * Abs(100 * n - h * d) <= d

C23_Static ==
    LET c == calc.args[1]
        t == calc.args[2]
    IN  /\ calc.op \in {"calculate_wpm", "calculate_raw_wpm"} =>
               IF t <= 0 THEN calc.result = 0
               ELSE IsRounded(calc.result, 12 * c, t)
        /\ calc.op = "calculate_accuracy" =>
               IF t <= 0 THEN calc.result = 10000
               ELSE IsRounded(calc.result, 100 * c, t)
        /\ (calc.op = "calculate_wpm" /\ calc.args = <<250, 60>>)
               => calc.result = 5000
        /\ (calc.op = "calculate_accuracy" /\ calc.args = <<95, 100>>)
               => calc.result = 9500

C23_Session ==
    LET s == calc.stats
        typed == s.correct_chars + s.incorrect_chars
    IN  /\ get_accuracy(s) = calculate_accuracy(s.correct_chars, typed)
        /\ \A t \in Seconds :
               /\ get_wpm(s, t) = calculate_wpm(s.correct_chars, t)
               /\ get_raw_wpm(s, t) = calculate_raw_wpm(typed, t)

C23_ExtraMissedStep ==
    (/\ calc'.stats.correct_chars = calc.stats.correct_chars
     /\ calc'.stats.incorrect_chars = calc.stats.incorrect_chars)
        => /\ get_accuracy(calc'.stats) = get_accuracy(calc.stats)
           /\ \A t \in Seconds :
                  /\ get_wpm(calc'.stats, t) = get_wpm(calc.stats, t)
                  /\ get_raw_wpm(calc'.stats, t) = get_raw_wpm(calc.stats, t)

C23_SpeedAndAccuracy ==
    /\ [](C23_Static /\ C23_Session)
    /\ [][C23_ExtraMissedStep]_vars

C23_Witness ==
    /\ calc.op = "calculate_wpm"
    /\ calc.args = <<250, 60>>
    /\ calc.result = 5000

(***************************************************************************)
(* C24: consistency(speeds) returns exactly 100 for every sequence with    *)
(* fewer than two strictly positive entries (empty, single, all zero or    *)
(* negative, one positive among zeros), and for every sequence the result  *)
(* lies in [0, 100]; a session in which at most one word was submitted     *)
(* therefore always reports consistency 100.                               *)
(***************************************************************************)
PositiveCount(speeds) == Cardinality({i \in 1..Len(speeds) : speeds[i] > 0})

C24_ConsistencyFloor ==
    /\ calc.op = "calculate_consistency" =>
           /\ 0 <= calc.result /\ calc.result <= 10000
           /\ PositiveCount(calc.args) < 2 => calc.result = 10000
    /\ LET r == get_consistency(calc.stats)
       IN  /\ 0 <= r /\ r <= 10000
           /\ PositiveCount(calc.stats.word_speeds) < 2 => r = 10000
           /\ Len(calc.stats.word_speeds) <= 1 => r = 10000

\* one positive speed among zeros
C24_Witness ==
    /\ calc.op = "calculate_consistency"
    /\ calc.args = <<0, 3, 0>>
    /\ calc.result = 10000

(***************************************************************************)
(* WordGenerator on its own.  A string is the sequence of its characters,  *)
(* so that sanitizing, lower-casing, capitalizing, appending a mark and    *)
(* splitting are computed as the code computes them.  The state of the     *)
(* files on disk is chosen anew at every call.                             *)
(***************************************************************************)
MaxCount == 2           \* largest count asked of generate_words
MaxCalls == 2           \* calls made on one WordGenerator
MaxDraw == 2            \* positions of a word list that random.choice picks

LowerLetters ==
    <<"a", "b", "c", "d", "e", "f", "g", "h", "i", "j", "k", "l", "m",
      "n", "o", "p", "q", "r", "s", "t", "u", "v", "w", "x", "y", "z">>
UpperLetters ==
    <<"A", "B", "C", "D", "E", "F", "G", "H", "I", "J", "K", "L", "M",
      "N", "O", "P", "Q", "R", "S", "T", "U", "V", "W", "X", "Y", "Z">>

PositionIn(letters, c) == CHOOSE i \in 1..Len(letters) : letters[i] = c
IsIn(letters, c) == \E i \in 1..Len(letters) : letters[i] = c

\* str.lower() and str.upper() on one character
lower_char(c) ==
    IF IsIn(UpperLetters, c) THEN LowerLetters[PositionIn(UpperLetters, c)]
    ELSE c
upper_char(c) ==
    IF IsIn(LowerLetters, c) THEN UpperLetters[PositionIn(LowerLetters, c)]
    ELSE c

\* str.lower()
str_lower(str) == [i \in 1..Len(str) |-> lower_char(str[i])]

\* str.capitalize(): first character upper, the rest lower
capitalize(str) ==
    [i \in 1..Len(str) |-> IF i = 1 THEN upper_char(str[i])
                           ELSE lower_char(str[i])]

\* str.replace('..', ''), left to right without overlap
RECURSIVE RemoveDotDot(_)
RemoveDotDot(str) ==
    IF Len(str) < 2 THEN str
    ELSE IF str[1] = "." /\ str[2] = "." THEN
        RemoveDotDot(SubSeq(str, 3, Len(str)))
    ELSE <<str[1]>> \o RemoveDotDot(Tail(str))

\* str.replace(c, '')
RemoveChar(str, c) == SelectSeq(str, LAMBDA x : x # c)

\* language.replace('..', '').replace('/', '').replace('\\', '')
sanitize(language) ==
    RemoveChar(RemoveChar(RemoveDotDot(language), "/"), "\\")

english == <<"e", "n", "g", "l", "i", "s", "h">>
english_us == <<"e", "n", "g", "l", "i", "s", "h", "_", "u", "s">>
english_uk == <<"e", "n", "g", "l", "i", "s", "h", "_", "u", "k">>
programming == <<"p", "r", "o", "g", "r", "a", "m", "m", "i", "n", "g">>

\* the language keys the callers pass
Languages ==
    {english,
     <<"k", "l", "i", "n", "g", "o", "n">>,
     programming,
     <<"P", "r", "o", "g", "r", "a", "m", "m", "i", "n", "g">>,
     <<"p", "r", "o", "g", "r", "a", "m", "/", "m", "i", "n", "g">>}

\* file_map.get(language.lower(), "english_2k.txt")
file_map(key) ==
    CASE key = english     -> "english_2k.txt"
      [] key = english_us  -> "english_2k.txt"
      [] key = english_uk  -> "english_uk.txt"
      [] key = programming -> "programming.txt"
      [] OTHER             -> "english_2k.txt"

\* The stripped non-empty lines of a word-list file that can be read.
EnglishWords == << <<"t", "o">>, <<"b", "e">> >>
EnglishUkWords == << <<"t", "o">>, <<"b", "y">> >>
ProgrammingWords == << <<"i", "f">>, <<"i", "s", "N", "(">> >>

FileWords(filename) ==
    CASE filename = "programming.txt" -> ProgrammingWords
      [] filename = "english_uk.txt"  -> EnglishUkWords
      [] OTHER                        -> EnglishWords

FallbackWords ==
    << <<"t", "h", "e">>, <<"q", "u", "i", "c", "k">>,
       <<"b", "r", "o", "w", "n">>, <<"f", "o", "x">>,
       <<"j", "u", "m", "p", "s">>, <<"o", "v", "e", "r">>,
       <<"t", "h", "e">>, <<"l", "a", "z", "y">>, <<"d", "o", "g">> >>

\* what the word-list file is when load_wordlist looks at it
FileStates ==
    {"ok", "missing", "empty", "unreadable", "undecodable", "outside"}

\* except IOError: the errors of read_text that clause catches
CaughtByIOError(file) == file = "unreadable"

\* load_wordlist(language) with the file in the given state
load_wordlist(g, language, file) ==
    LET key == sanitize(language)
        filename == file_map(str_lower(key))
        fallback == [raised |-> FALSE, words |-> FallbackWords,
                     cache |-> g.cache]
    IN  IF key \in g.cache THEN
            [raised |-> FALSE, words |-> FileWords(filename),
             cache |-> g.cache]
        ELSE IF file = "outside" THEN fallback
        ELSE IF file = "missing" THEN fallback
        ELSE IF file \in {"unreadable", "undecodable"} THEN
            IF CaughtByIOError(file) THEN fallback
            ELSE [raised |-> TRUE, words |-> << >>, cache |-> g.cache]
        ELSE IF file = "empty" THEN fallback
        ELSE [raised |-> FALSE, words |-> FileWords(filename),
              cache |-> g.cache \cup {key}]

PunctuationMarks == <<".", ",", "!", "?">>
SentenceEnds == {".", "!", "?"}

\* _add_punctuation(words); marks[i] is 0 when random() >= 0.15 for word
\* i and otherwise the index of the mark random.choice picked
RECURSIVE add_punctuation_from(_, _, _, _)
add_punctuation_from(words, marks, i, result) ==
    IF i > Len(words) THEN result
    ELSE
        LET word == words[i]
            prev == result[Len(result)]
            out == IF marks[i] # 0 THEN
                       Append(word, PunctuationMarks[marks[i]])
                   ELSE IF i = 1 \/ (result # << >>
                                     /\ prev[Len(prev)] \in SentenceEnds) THEN
                       capitalize(word)
                   ELSE word
        IN  add_punctuation_from(words, marks, i + 1, Append(result, out))

add_punctuation(words, marks) == add_punctuation_from(words, marks, 1, << >>)

DigitChars == <<"0", "1", "2", "3", "4", "5", "6", "7", "8", "9">>

\* str(n) for n >= 0
RECURSIVE str_of(_)
str_of(n) ==
    IF n < 10 THEN <<DigitChars[n + 1]>>
    ELSE Append(str_of(n \div 10), DigitChars[(n % 10) + 1])

\* the values of random.randint(0, 9999) that are tried
NumberSamples == {0, 9999}

\* a decoration that puts a number after the words instead of replacing one
add_numbers_inserting(words, picks) ==
    IF \E i \in 1..Len(words) : picks[i] # None
    THEN Append(words, str_of(0))
    ELSE words

\* _add_numbers(words); picks[i] is None when random() >= 0.10 for word i
\* and otherwise the integer random.randint returned
add_numbers(words, picks) ==
    [i \in 1..Len(words) |-> IF picks[i] = None THEN words[i]
                             ELSE str_of(picks[i])]

ErrorWords ==
    << <<"e", "r", "r", "o", "r">>, <<"l", "o", "a", "d", "i", "n", "g">>,
       <<"w", "o", "r", "d", "l", "i", "s", "t">> >>

\* generate_words(count, language, punctuation, numbers); draws[i] is the
\* position random.choice picked in the word list for word i
generate_words(g, count, language, punctuation, numbers, file, draws, marks, picks) ==
    LET loaded == load_wordlist(g, language, file)
        wordlist == loaded.words
        words == [i \in 1..count |-> wordlist[draws[i]]]
        punctuated == IF punctuation THEN add_punctuation(words, marks)
                      ELSE words
        numbered == IF numbers THEN add_numbers(punctuated, picks)
                    ELSE punctuated
        result == IF wordlist = << >> THEN ErrorWords
                  ELSE IF str_lower(language) = programming THEN words
                  ELSE numbered
    IN  [g EXCEPT !.op = "generate_words", !.language = language,
                  !.count = count, !.punctuation = punctuation,
                  !.numbers = numbers, !.file = file,
                  !.raised = loaded.raised, !.wordlist = wordlist,
                  !.drawn = IF loaded.raised THEN << >> ELSE words,
                  !.words = IF loaded.raised THEN << >> ELSE result,
                  !.cache = loaded.cache, !.calls = g.calls + 1]

\* str.split(): the maximal runs of characters that are not whitespace
RECURSIVE split_from(_, _, _)
split_from(text, word, result) ==
    IF text = << >> THEN
        IF word = << >> THEN result ELSE Append(result, word)
    ELSE IF Head(text) = " " THEN
        split_from(Tail(text), << >>,
                   IF word = << >> THEN result ELSE Append(result, word))
    ELSE split_from(Tail(text), Append(word, Head(text)), result)

split(text) == split_from(text, << >>, << >>)

\* the quotes of a quotes.json that can be read and parsed
Quotes ==
    << [text |-> <<"g", "o", " ", "o", "n">>],
       [text |-> <<" ", "b", "e", " ", " ", "i", "t", " ">>] >>

\* what quotes.json is when load_quotes looks at it
QuoteFileStates ==
    {"ok", "missing_creatable", "missing_uncreatable", "unreadable",
     "invalid_json", "undecodable", "empty_list"}

\* _create_default_quotes: a failed write reaches the except clause, whose
\* tuple names json.JSONEncodeError, which the json module does not have
create_default_quotes_raises(file) == file = "missing_uncreatable"

\* load_quotes(): the quotes, or the exception that leaves it
load_quotes(file) ==
    IF create_default_quotes_raises(file) THEN
        [raised |-> TRUE, quotes |-> << >>]
    ELSE IF file = "missing_uncreatable" THEN
        [raised |-> FALSE, quotes |-> << >>]
    ELSE IF file = "missing_creatable" THEN
        [raised |-> FALSE, quotes |-> Quotes]
    ELSE IF file \in {"unreadable", "invalid_json"} THEN
        [raised |-> FALSE, quotes |-> << >>]
    ELSE IF file = "undecodable" THEN [raised |-> TRUE, quotes |-> << >>]
    ELSE IF file = "empty_list" THEN [raised |-> FALSE, quotes |-> << >>]
    ELSE [raised |-> FALSE, quotes |-> Quotes]

\* get_quote_words(quote)
get_quote_words(quote) == split(quote.text)

PlaceholderWords ==
    << <<"N", "o">>, <<"q", "u", "o", "t", "e", "s">>,
       <<"a", "v", "a", "i", "l", "a", "b", "l", "e">> >>

\* the words TestEngine.reset() builds the session from in Quote mode;
\* pick is the position random.choice picked among the quotes
quote_reset(g, file, pick) ==
    LET loaded == load_quotes(file)
        quote == loaded.quotes[pick]
    IN  [g EXCEPT !.op = "quote_reset", !.language = << >>, !.count = 0,
                  !.punctuation = FALSE, !.numbers = FALSE, !.file = file,
                  !.raised = loaded.raised, !.wordlist = << >>,
                  !.drawn = IF loaded.quotes = << >> THEN << >>
                            ELSE <<quote.text>>,
                  !.words = IF loaded.raised THEN << >>
                            ELSE IF loaded.quotes = << >> THEN PlaceholderWords
                            ELSE get_quote_words(quote),
                  !.calls = g.calls + 1]

InitWords ==
    /\ SessionParked
    /\ db = DbEmpty
    /\ calc = CalcIdle
    /\ gen = GenIdle

\* word_generator.load_wordlist(language)
LoadWordlist(language, file) ==
    /\ gen.op = "none"
    /\ gen.calls < MaxCalls
    /\ LET loaded == load_wordlist(gen, language, file)
       IN  gen' = [gen EXCEPT !.op = "load_wordlist", !.language = language,
                              !.count = 0, !.punctuation = FALSE,
                              !.numbers = FALSE, !.file = file,
                              !.raised = loaded.raised,
                              !.wordlist = loaded.words, !.drawn = << >>,
                              !.words = loaded.words,
                              !.cache = loaded.cache,
                              !.calls = gen.calls + 1]
    /\ UNCHANGED <<sessionVars, calc, db>>

\* word_generator.generate_words(count, language, punctuation, numbers)
GenerateWords(count, language, punctuation, numbers, file) ==
    /\ gen.op = "none"
    /\ gen.calls < MaxCalls
    /\ LET loaded == load_wordlist(gen, language, file)
           decorated == str_lower(language) # programming /\ ~loaded.raised
           size == IF loaded.raised \/ Len(loaded.words) > MaxDraw
                   THEN MaxDraw ELSE Len(loaded.words)
       IN  \E draws \in [1..count -> 1..size] :
           \E marks \in [1..count -> 0..Len(PunctuationMarks)] :
           \E picks \in [1..count -> NumberSamples \cup {None}] :
               /\ ~(decorated /\ punctuation) =>
                      \A i \in 1..count : marks[i] = 0
               /\ ~(decorated /\ numbers) =>
                      \A i \in 1..count : picks[i] = None
               /\ gen' = generate_words(gen, count, language, punctuation,
                                        numbers, file, draws, marks, picks)
    /\ UNCHANGED <<sessionVars, calc, db>>

\* TestEngine.reset() in Quote mode asking the generator for a quote
QuoteReset(file) ==
    /\ gen.op = "none"
    /\ gen.calls < MaxCalls
    /\ LET n == Len(load_quotes(file).quotes)
       IN  \E pick \in 1..(IF n = 0 THEN 1 ELSE n) :
               gen' = quote_reset(gen, file, pick)
    /\ UNCHANGED <<sessionVars, calc, db>>

\* the call returns and its caller goes on with the same WordGenerator
Return ==
    /\ gen.op # "none"
    /\ gen' = [GenIdle EXCEPT !.cache = gen.cache, !.calls = gen.calls]
    /\ UNCHANGED <<sessionVars, calc, db>>

NextWords ==
    \/ \E language \in Languages, file \in FileStates :
           LoadWordlist(language, file)
    \/ \E count \in 0..MaxCount, language \in Languages,
          punctuation \in BOOLEAN, numbers \in BOOLEAN, file \in FileStates :
           GenerateWords(count, language, punctuation, numbers, file)
    \/ \E file \in QuoteFileStates : QuoteReset(file)
    \/ Return

SpecWords == InitWords /\ [][NextWords]_vars

\* Vocabulary of the word-generator properties.
Generated == gen.op = "generate_words" /\ ~gen.raised
Occurs(word, wordlist) == \E j \in 1..Len(wordlist) : wordlist[j] = word
IsCapitalized(word) == word[1] = upper_char(word[1])
EndsSentence(word) == word[Len(word)] \in SentenceEnds
\* decoration is applied to this call's words
Decorating == str_lower(gen.language) # programming

(***************************************************************************)
(* C25: generate_words(count, language, punctuation, numbers) returns      *)
(* exactly count words for every language and every combination of the     *)
(* two flags (decoration never adds or removes words), and with both       *)
(* flags off every returned word is an element of the resolved word list.  *)
(***************************************************************************)
C25_CountAndMembership ==
    Generated =>
        /\ Len(gen.words) = gen.count
        /\ (~gen.punctuation /\ ~gen.numbers) =>
               \A i \in 1..Len(gen.words) : Occurs(gen.words[i], gen.wordlist)

\* both decorations changed the words and the count is kept
C25_Witness ==
    /\ Generated
    /\ gen.count = MaxCount
    /\ gen.punctuation /\ gen.numbers
    /\ \A i \in 1..gen.count : gen.words[i] # gen.drawn[i]
    /\ \E i \in 1..gen.count : ~Occurs(gen.drawn[i], <<gen.words[i]>>)
                               /\ gen.words[i] = str_of(9999)
    /\ Len(gen.words) = MaxCount

(***************************************************************************)
(* C26: load_wordlist and generate_words never raise: for an unrecognized  *)
(* language they use the default English list; when the word-list file is  *)
(* missing, empty, unreadable or undecodable, or the resolved path falls   *)
(* outside the word-list directory, they use the fixed 9-word fallback     *)
(* list.                                                                   *)
(***************************************************************************)
Unrecognized(language) ==
    str_lower(sanitize(language)) \notin
        {english, english_us, english_uk, programming}

C26_LoadNeverRaises ==
    gen.op \in {"load_wordlist", "generate_words"} =>
        /\ ~gen.raised
        /\ (Unrecognized(gen.language) /\ gen.file = "ok") =>
               gen.wordlist = EnglishWords
        /\ (gen.file # "ok" /\ sanitize(gen.language) \notin gen.cache) =>
               gen.wordlist = FallbackWords

(***************************************************************************)
(* C27: in Quote mode, engine construction and reset never raise: when     *)
(* the quote file is missing and cannot be created, is unreadable, or is   *)
(* not valid JSON, the supply yields no quote and the session is built     *)
(* from the 3-word placeholder; otherwise the sequence is the whitespace   *)
(* split of exactly one quote's text.                                      *)
(***************************************************************************)
C27_QuoteResetNeverRaises ==
    gen.op = "quote_reset" =>
        /\ ~gen.raised
        /\ gen.file \in {"missing_uncreatable", "unreadable", "invalid_json"}
               => gen.drawn = << >> /\ gen.words = PlaceholderWords
        /\ gen.file \in {"ok", "missing_creatable"}
               => \E q \in 1..Len(Quotes) : gen.words = split(Quotes[q].text)

(***************************************************************************)
(* C28: with punctuation on and numbers off, for every outcome of the      *)
(* random choices each output word is the drawn word optionally followed   *)
(* by exactly one of . , ! ?; the first output word is capitalized; and    *)
(* every word that follows a word ending in . ! or ? is capitalized,       *)
(* whether or not that word itself receives a punctuation mark.            *)
(***************************************************************************)
C28_SentencesCapitalized ==
    (Generated /\ Decorating /\ gen.punctuation /\ ~gen.numbers) =>
        \A i \in 1..Len(gen.words) :
            LET word == gen.words[i]
                drawn == gen.drawn[i]
            IN  /\ \/ str_lower(word) = str_lower(drawn)
                   \/ \E m \in 1..Len(PunctuationMarks) :
                          str_lower(word)
                              = Append(str_lower(drawn), PunctuationMarks[m])
                /\ i = 1 => IsCapitalized(word)
                /\ (i > 1 /\ EndsSentence(gen.words[i - 1]))
                       => IsCapitalized(word)

(***************************************************************************)
(* C29: whenever generate_words draws from the programming word list, for  *)
(* every language key that resolves to that list (whatever its letter      *)
(* case or the characters removed by sanitization), the returned words     *)
(* are undecorated elements of that list even with punctuation and         *)
(* numbers both on.                                                        *)
(***************************************************************************)
C29_ProgrammingUndecorated ==
    (/\ Generated
     /\ file_map(str_lower(sanitize(gen.language))) = "programming.txt"
     /\ gen.wordlist = ProgrammingWords) =>
        /\ gen.words = gen.drawn
        /\ \A i \in 1..Len(gen.words) :
               Occurs(gen.words[i], ProgrammingWords)

\* Vocabulary of the slot properties.
Slots == 1..Len(word_states)
IsPrefix(typed, expected) ==
    /\ Len(typed) <= Len(expected)
    /\ \A i \in 1..Len(typed) : typed[i] = expected[i]
RecordsCorrect(ws) == \A k \in 1..Len(ws.char_states) : ws.char_states[k][3]
\* a step of the session that is not a reset
SameSession == lastCall'.op # "reset"

(***************************************************************************)
(* C31: in every reachable state and for every slot: before submission     *)
(* all_correct is true if and only if every keystroke record currently in  *)
(* the slot is correct (typed is a prefix of expected); after submission    *)
(* all_correct is true if and only if typed equals expected exactly.       *)
(***************************************************************************)
C31_AllCorrectFlag ==
    \A j \in Slots :
        LET ws == word_states[j]
        IN  IF ws.completed THEN ws.correct <=> (ws.typed = ws.word)
            ELSE /\ ws.correct <=> RecordsCorrect(ws)
                 /\ ws.correct <=> IsPrefix(ws.typed, ws.word)

\* a wrong character was deleted and the word then typed and submitted
C31_Witness ==
    /\ lastCall.action = "word_submitted"
    /\ stats.total_keystrokes = 2
    /\ stats.correct_chars = 1
    /\ stats.incorrect_chars = 0
    /\ word_states[1].completed
    /\ word_states[1].correct
    /\ word_states[1].typed = word_states[1].word

(***************************************************************************)
(* C32: in every reachable state the live counters equal a recomputation   *)
(* from the slots: summed over all slots, correct_chars is the number of   *)
(* positions i < len(expected) with typed[i] = expected[i], incorrect      *)
(* _chars the number of such positions with typed[i] != expected[i],       *)
(* extra_chars is max(0, len(typed) - len(expected)); they agree with      *)
(* get_char_stats(expected, typed) summed over slots, no counter is ever   *)
(* negative, and the clamp at 0 on backspace never actually fires.         *)
(***************************************************************************)
SlotStats == [j \in Slots |-> get_char_stats(word_states[j].word,
                                             word_states[j].typed)]

C32_Recomputed ==
    /\ stats.correct_chars = SeqSum([j \in Slots |-> SlotStats[j].correct])
    /\ stats.incorrect_chars
           = SeqSum([j \in Slots |-> SlotStats[j].incorrect])
    /\ stats.extra_chars = SeqSum([j \in Slots |-> SlotStats[j].extra])
    /\ \A k \in 1..5 : Counters(stats)[k] >= 0

\* a deletion takes exactly one off the three typed-character counters
C32_ClampStep ==
    (KeyCalled /\ lastCall'.action = "char_deleted") =>
        stats'.correct_chars + stats'.incorrect_chars + stats'.extra_chars
            = stats.correct_chars + stats.incorrect_chars
              + stats.extra_chars - 1

C32_CountersMatchSlots == []C32_Recomputed /\ [][C32_ClampStep]_vars

\* an extra character was typed and deleted again
C32_Witness ==
    /\ lastCall.action = "char_deleted"
    /\ stats.total_keystrokes = 2
    /\ stats.correct_chars = 1
    /\ stats.extra_chars = 0
    /\ HasSlot
    /\ CurSlot.typed = CurSlot.word

(***************************************************************************)
(* C33: in every reachable state missed_chars is the sum over completed    *)
(* slots of max(0, len(expected) - len(typed)), and word_speeds holds      *)
(* exactly one entry per completed slot, in submission order; neither is   *)
(* changed by character keys or backspace.                                 *)
(***************************************************************************)
CompletedSlots == {j \in Slots : word_states[j].completed}

C33_Submitted ==
    LET k == Cardinality(CompletedSlots)
    IN  /\ CompletedSlots = 1..k
        /\ Len(stats.word_speeds) = k
        /\ \A j \in 1..k : stats.word_speeds[j] = WordWpm(word_states[j])
        /\ stats.missed_chars
               = SeqSum([j \in 1..k |->
                            IF Len(word_states[j].word)
                                   > Len(word_states[j].typed)
                            THEN Len(word_states[j].word)
                                     - Len(word_states[j].typed)
                            ELSE 0])

C33_TypingStep ==
    (KeyCalled /\ lastCall'.key # "space") =>
        /\ stats'.missed_chars = stats.missed_chars
        /\ stats'.word_speeds = stats.word_speeds

C33_MissedAndSpeeds == []C33_Submitted /\ [][C33_TypingStep]_vars

\* a word was submitted one character short, after the clock had moved
C33_Witness ==
    /\ lastCall.action = "word_submitted"
    /\ stats.missed_chars = 1
    /\ Len(stats.word_speeds) = 1
    /\ stats.word_speeds[1] > 0
    /\ word_states[1].completed

(***************************************************************************)
(* C39: in every reachable state, every slot before current_word_index is  *)
(* completed with start_time and end_time set, every slot after            *)
(* current_word_index has empty typed text, no keystroke records and       *)
(* completed = false, and character and backspace keys modify only the     *)
(* slot at current_word_index; a slot is never modified again once the     *)
(* cursor has moved past it.                                               *)
(***************************************************************************)
C39_SlotsAroundCursor ==
    \A j \in Slots :
        LET ws == word_states[j]
        IN  /\ j <= current_word_index =>
                /\ ws.completed
                /\ ws.start_time # None
                /\ ws.end_time # None
            /\ j > current_word_index + 1 =>
                /\ ws.typed = << >>
                /\ ws.char_states = << >>
                /\ ~ws.completed

C39_SlotStep ==
    SameSession =>
        /\ Len(word_states') >= Len(word_states)
        /\ \A j \in Slots :
               j <= current_word_index => word_states'[j] = word_states[j]
        /\ (KeyCalled /\ lastCall'.key # "space") =>
               \A j \in Slots :
                   j # current_word_index + 1 =>
                       word_states'[j] = word_states[j]

C34_Step ==
    (/\ KeyCalled
     /\ Len(lastCall'.key) = 1
     /\ status = IN_PROGRESS
     /\ ~Preempted
     /\ HasSlot) =>
        LET after == word_states'[current_word_index + 1]
        IN  /\ after.typed = Append(CurSlot.typed, lastCall'.key)
            /\ Len(after.char_states) = Len(CurSlot.char_states) + 1
            /\ current_char_index' = current_char_index + 1

C34_CharAdvancesCursor == [][C34_Step]_vars

(***************************************************************************)
(* A Words session long enough for the periodic WPM sample: two words,     *)
(* Normal difficulty, and up to MaxSampledKeystrokes typed characters.     *)
(***************************************************************************)
MaxSampledKeystrokes == 4   \* typed characters in a sampled session
SampledWords == 2           \* words of a sampled session

TypingKeys == CharKeys \cup {"space", "backspace"}

InitSampling ==
    /\ mode = "words"
    /\ mode_value = SampledWords
    /\ difficulty = "normal"
    /\ word_states \in
           {WordStatesOf(l) : l \in ResetWordLists("words", SampledWords)}
    /\ current_word_index = 0
    /\ current_char_index = 0
    /\ status = NOT_STARTED
    /\ start_time = None
    /\ end_time = None
    /\ time_limit = ResetTimeLimit("words", SampledWords)
    /\ stats = LiveStatsReset
    /\ now = 1
    /\ lastCall = Call("init", "", "none", FALSE, 0, 0)
    /\ on_complete_calls = 0
    /\ key_sent = FALSE
    /\ created_at = 1
    /\ resets = 0
    /\ gen = GenIdle
    /\ calc = CalcIdle
    /\ screen = "idle"
    /\ db = DbEmpty

\* engine.process_key(key) for the keys that type, delete and submit
TypeKey(key) ==
    /\ key \in TypingKeys
    /\ ProcessKeyWithin(key, MaxSampledKeystrokes)

NextSampling ==
    \/ \E key \in TypingKeys : TypeKey(key)
    \/ Tick
    \/ Reset

SpecSampling == InitSampling /\ [][NextSampling]_vars

(***************************************************************************)
(* C35: a character key appends a periodic sample to wpm_history if and    *)
(* only if it is a judged (non-extra) character that brings correct_chars  *)
(* + incorrect_chars to a positive multiple of 20; extra characters,       *)
(* backspace and ignored keys never append a sample, and existing samples  *)
(* are never removed or changed before reset.                              *)
(***************************************************************************)
Judged(st) == st.correct_chars + st.incorrect_chars
Sampled == Len(stats'.wpm_history) = Len(stats.wpm_history) + 1
\* the step typed a judged character that reached a multiple of the period
SampleDue ==
    /\ lastCall'.action = "char_added"
    /\ Judged(stats') = Judged(stats) + 1
    /\ Judged(stats') % SampleEvery = 0

C35_Step ==
    (KeyCalled /\ SameSession) =>
        /\ SubSeq(stats'.wpm_history, 1, Len(stats.wpm_history))
               = stats.wpm_history
        /\ lastCall'.action = "char_added" => (Sampled <=> SampleDue)
        /\ lastCall'.action \in {"char_deleted", "ignored"} =>
               stats'.wpm_history = stats.wpm_history
        /\ stats'.extra_chars > stats.extra_chars =>
               stats'.wpm_history = stats.wpm_history

C35_PeriodicSamples == [][C35_Step]_vars

(***************************************************************************)
(* C37: in Quote mode with no difficulty failure, after the last word of   *)
(* the quote is submitted the session becomes Completed with               *)
(* words_completed = total_words at the latest on the next process_key     *)
(* call, whatever that key is (including backspace); a process_key call    *)
(* never returns leaving the session InProgress with the cursor past the   *)
(* last slot unless it is the call that submitted the last word.           *)
(***************************************************************************)
C37_Step ==
    (mode = "quote" /\ KeyCalled) =>
        /\ (status = IN_PROGRESS /\ ~HasSlot) =>
               /\ status' = COMPLETED
               /\ lastCall'.action = "test_completed"
               /\ Len(lastCall'.delivered) = 1
               /\ lastCall'.delivered[1].words_completed
                      = lastCall'.delivered[1].total_words
               /\ lastCall'.delivered[1].total_words = Len(word_states)
        /\ (status' = IN_PROGRESS
            /\ current_word_index' >= Len(word_states')) =>
               /\ lastCall'.action = "word_submitted"
               /\ current_word_index = Len(word_states) - 1

C37_QuoteCompletesOnNextKey == [][C37_Step]_vars

\* the quote's last word was submitted and a backspace then ended the session
C37_Witness ==
    /\ mode = "quote"
    /\ status = COMPLETED
    /\ lastCall.key = "backspace"
    /\ lastCall.action = "test_completed"
    /\ Len(word_states) > 0
    /\ current_word_index = Len(word_states)
    /\ lastCall.delivered[1].words_completed = Len(word_states)

(***************************************************************************)
(* C38: in Time mode with a positive limit, provided replenishment         *)
(* succeeds, the session becomes Completed only through the time check     *)
(* (elapsed >= time_limit): no submit completes it and the cursor never    *)
(* runs past the end of the buffer; under Normal difficulty a Time-mode    *)
(* session therefore ends if and only if the limit is reached and a key    *)
(* or poll arrives.                                                        *)
(***************************************************************************)
TimedSession == mode = "time" /\ time_limit \notin {None, 0}
\* slots from the cursor to the end of the buffer
Margin(states, index) == Len(states) - index

C38_CursorInBuffer == TimedSession => HasSlot

C38_Step ==
    (TimedSession /\ SameSession) =>
        \* a submit whose replenishment succeeds keeps the lookahead
        /\ (/\ KeyCalled
            /\ lastCall'.supply # "raised"
            /\ Margin(word_states, current_word_index) > TimeLookahead) =>
               Margin(word_states', current_word_index') > TimeLookahead
        /\ lastCall'.action = "word_submitted" => status' = IN_PROGRESS
        \* Completed is reached through the time check only
        /\ (status' = COMPLETED /\ status # COMPLETED) =>
               /\ KeyCalled \/ PollCalled
               /\ start_time' # None
               /\ now - start_time' >= time_limit
               /\ end_time' = now
        /\ difficulty = "normal" =>
               /\ (status = IN_PROGRESS /\ Preempted
                   /\ (KeyCalled \/ PollCalled)) => status' = COMPLETED
               /\ (status' \in Terminal /\ status \notin Terminal) =>
                      /\ status' = COMPLETED
                      /\ status = IN_PROGRESS /\ Preempted

C38_TimeEndsByLimitOnly == []C38_CursorInBuffer /\ [][C38_Step]_vars

\* two words submitted, the buffer replenished, and a key after the limit
C38_Witness ==
    /\ TimedSession
    /\ difficulty = "normal"
    /\ status = COMPLETED
    /\ lastCall.key = "space"
    /\ lastCall.action = "test_completed"
    /\ current_word_index = 2
    /\ Len(word_states) = TimeWordBuffer + TimeWordBatch
    /\ end_time - start_time >= time_limit

(***************************************************************************)
(* TestScreen.on_key in front of the engine.  The handler runs on the      *)
(* event loop, so while it is inside the ctrl+backspace loop no other key, *)
(* poll or restart is served; only the clock moves.                        *)
(***************************************************************************)
\* the keys on_key hands to process_key
ScreenKeys == CharKeys \cup {"space", "backspace"}

InitScreen == Init

\* on_key: 'space', 'backspace' or a single character
OnKey(key) ==
    /\ screen = "idle"
    /\ key \in ScreenKeys
    /\ ProcessKeyWithin(key, MaxKeystrokes)

\* on_key('ctrl+backspace') reaches its while statement
OnCtrlBackspace ==
    /\ screen = "idle"
    /\ screen' = "ctrl_backspace"
    /\ UNCHANGED <<configVars, engineVars, now, lastCall, on_complete_calls,
                   key_sent, created_at, resets, gen, calc, db>>

\* while self.engine.current_word and len(self.engine.current_word.typed) > 0
LoopCondition == HasCurrentWord(Engine) /\ Len(current_word(Engine).typed) > 0

\* one pass of the loop body: self.engine.process_key("backspace")
LoopBackspace ==
    /\ screen = "ctrl_backspace"
    /\ LoopCondition
    /\ ProcessKeyWithin("backspace", MaxKeystrokes)

\* the loop condition is false: on_key goes on and returns
LoopExit ==
    /\ screen = "ctrl_backspace"
    /\ ~LoopCondition
    /\ screen' = "idle"
    /\ UNCHANGED <<configVars, engineVars, now, lastCall, on_complete_calls,
                   key_sent, created_at, resets, gen, calc, db>>

\* the timer's poll, served between two key events
OnTimer ==
    /\ screen = "idle"
    /\ CheckTimeLimit

NextScreen ==
    \/ \E key \in ScreenKeys : OnKey(key)
    \/ OnCtrlBackspace
    \/ LoopBackspace
    \/ LoopExit
    \/ OnTimer
    \/ Tick

SpecScreen == InitScreen /\ [][NextScreen]_vars

\* the handler keeps executing: a pass or the exit that can be taken is taken
SpecScreenFair ==
    SpecScreen /\ WF_vars(LoopBackspace) /\ WF_vars(LoopExit)

(***************************************************************************)
(* C36: the test screen's ctrl+backspace handler, which repeats            *)
(* process_key('backspace') while the current slot's typed text is         *)
(* non-empty, terminates in every reachable engine state, including when   *)
(* the time limit expires during the loop and when the session is already  *)
(* Completed or Failed with typed text left in the current slot.           *)
(***************************************************************************)
C36_CtrlBackspaceTerminates == (screen = "ctrl_backspace") ~> (screen = "idle")

(***************************************************************************)
(* DatabaseManager: the tests and personal_bests tables under              *)
(* save_test_result.  wpm and accuracy are in hundredths.                  *)
(***************************************************************************)
MaxSaved == 3              \* results saved in one behaviour
MINIMUM_ACCURACY_FOR_PB == 9500

\* the columns of UNIQUE(mode, mode_value, language, difficulty)
SavedKeys ==
    {[mode |-> "words", mode_value |-> v, language |-> "english",
      difficulty |-> "normal"] : v \in 1..MaxModeValue}
    \cup {[mode |-> "time", mode_value |-> 1, language |-> "english",
           difficulty |-> "expert"]}

SavedWpms == {4000, 6000, 8000}
SavedAccuracies == {9499, 9500, 10000}

\* the TestResult objects handed to save_test_result
TestResults ==
    [key : SavedKeys, wpm : SavedWpms, accuracy : SavedAccuracies]

\* the rows of personal_bests with the columns of the key
RowsOf(table, key) == {row \in table : row.key = key}

\* result.wpm > row['wpm'], alternative with >=
BeatsBestOrTies(wpm, best) == wpm >= best

\* result.wpm > row['wpm']
BeatsBest(wpm, best) == wpm > best

\* row is None or result.wpm > row['wpm']
IsNewBest(table, result) ==
    \/ RowsOf(table, result.key) = {}
    \/ BeatsBest(result.wpm, (CHOOSE row \in RowsOf(table, result.key) : TRUE).wpm)

\* INSERT OR REPLACE INTO personal_bests: the row that conflicts on the
\* UNIQUE columns is deleted, then the new row is inserted
InsertOrReplace(table, row) ==
    (table \ RowsOf(table, row.key)) \cup {row}

\* _check_personal_best(result, test_id)
check_personal_best(d, result, test_id) ==
    IF IsNewBest(d.personal_bests, result)
    THEN [tests |-> [d.tests EXCEPT ![test_id].is_personal_best = TRUE],
          personal_bests |->
              InsertOrReplace(d.personal_bests,
                  [key |-> result.key, wpm |-> result.wpm,
                   accuracy |-> result.accuracy, test_id |-> test_id])]
    ELSE d

\* save_test_result(result): INSERT INTO tests, then the personal best
save_test_result(d, result) ==
    LET test_id == Len(d.tests) + 1
        inserted == [d EXCEPT !.tests =
                        Append(@, [id |-> test_id, key |-> result.key,
                                   wpm |-> result.wpm,
                                   accuracy |-> result.accuracy,
                                   is_personal_best |-> FALSE])]
    IN  IF result.accuracy >= MINIMUM_ACCURACY_FOR_PB
        THEN check_personal_best(inserted, result, test_id)
        ELSE inserted

InitDb ==
    /\ SessionParked
    /\ gen = GenIdle
    /\ calc = CalcIdle
    /\ db = DbEmpty

SaveTestResult(result) ==
    /\ Len(db.tests) < MaxSaved
    /\ db' = save_test_result(db, result)
    /\ UNCHANGED <<sessionVars, gen, calc>>

NextDb == \E result \in TestResults : SaveTestResult(result)

SpecDb == InitDb /\ [][NextDb]_vars

(***************************************************************************)
(* C40: after any sequence of save_test_result calls, for each key (mode,  *)
(* mode_value, language, difficulty) the personal_bests table holds at     *)
(* most one row; the row exists if and only if some saved result of that   *)
(* key has accuracy >= 95; its wpm is the maximum wpm among those results, *)
(* and it points to the earliest saved result that reached that maximum    *)
(* (a tie does not replace it).                                            *)
(***************************************************************************)
\* the ids of the saved results of a key with accuracy >= 95
Eligible(key) ==
    {i \in 1..Len(db.tests) :
        /\ db.tests[i].key = key
        /\ db.tests[i].accuracy >= MINIMUM_ACCURACY_FOR_PB}

\* the earliest eligible result whose wpm no eligible result exceeds
EarliestBest(key) ==
    CHOOSE i \in Eligible(key) :
        /\ \A j \in Eligible(key) : db.tests[j].wpm <= db.tests[i].wpm
        /\ \A j \in Eligible(key) : db.tests[j].wpm = db.tests[i].wpm => i <= j

C40_PersonalBestRows ==
    \A key \in SavedKeys :
        LET rows == RowsOf(db.personal_bests, key)
        IN  /\ Cardinality(rows) <= 1
            /\ (rows # {}) <=> (Eligible(key) # {})
            /\ \A row \in rows :
                /\ row.test_id = EarliestBest(key)
                /\ row.wpm = db.tests[EarliestBest(key)].wpm
                /\ \A j \in Eligible(key) : db.tests[j].wpm <= row.wpm

\* a later result ties the best of its key, after the best replaced a
\* slower one: the row still points to the earlier of the two
C40_Witness ==
    \E key \in SavedKeys :
        \E row \in RowsOf(db.personal_bests, key) :
            /\ row.test_id > 1
            /\ \E j \in Eligible(key) : j > row.test_id /\ db.tests[j].wpm = row.wpm
            /\ \E j \in Eligible(key) : j < row.test_id /\ db.tests[j].wpm < row.wpm

====
